---------------------------- MODULE Spec2Model ----------------------------
(***************************************************************************)
(* Model of the exam application's server routes:                          *)
(*   - POST /api/upload/analyze   (extraction pipeline)                    *)
(*   - POST /api/exam/answer      (answer submission)                      *)
(*   - POST /api/exam/complete    (answer resolution, merge, finalize)     *)
(* Every handler is split at its awaits: one action per store or model     *)
(* round trip, so that requests interleave exactly where the runtime can   *)
(* interleave them.  Text is a sequence of one-character strings.          *)
(***************************************************************************)
EXTENDS Integers, Sequences, FiniteSets, TLC

\* null: of a letter or another string, of a text or a row identifier, and
\* of a number
NULL == "null"
Nil == <<"null">>
NullNum == 0 - 1

(***************************************************************************)
(* Bounds of the model.                                                    *)
(***************************************************************************)
\* answer-submission requests started in one behaviour
MaxAnswerRequests == 2
\* completion requests started in one behaviour
MaxCompleteRequests == 2
\* extraction requests started in one behaviour
MaxExtractRequests == 2
\* questions of the upload of the resolution scenarios (two batches of BATCH_SIZE)
NumResolveQuestions == 10
\* questions of the largest upload of the aggregate scenarios
MaxQuestions == 40
\* tokens of a batch response of the assignment scenarios
MaxResponseTokens == 3

(***************************************************************************)
(* Text helpers: String.prototype.trim / toUpperCase on character          *)
(* sequences.                                                              *)
(***************************************************************************)
WhiteSpace == {" ", "\n", "\t"}

ToUpperChar(c) ==
  CASE c = "a" -> "A" [] c = "b" -> "B" [] c = "c" -> "C" [] c = "d" -> "D"
    [] c = "e" -> "E" [] c = "f" -> "F" [] c = "x" -> "X" [] OTHER -> c

ToUpperCase(s) == [i \in 1..Len(s) |-> ToUpperChar(s[i])]

RECURSIVE TrimStart(_)
TrimStart(s) ==
  IF s # <<>> /\ Head(s) \in WhiteSpace THEN TrimStart(Tail(s)) ELSE s

RECURSIVE TrimEnd(_)
TrimEnd(s) ==
  IF s # <<>> /\ s[Len(s)] \in WhiteSpace
    THEN TrimEnd(SubSeq(s, 1, Len(s) - 1)) ELSE s

Trim(s) == TrimEnd(TrimStart(s))

\* Array.prototype.slice(0, n)
Slice(s, n) == SubSeq(s, 1, IF n < Len(s) THEN n ELSE Len(s))

Min(a, b) == IF a < b THEN a ELSE b
Max(a, b) == IF a > b THEN a ELSE b

(***************************************************************************)
(* src/lib/ai-solve-prompts.ts: parseSolveResponse.                        *)
(***************************************************************************)
VALID_ANSWERS == {"A", "B", "C", "D", "E"}

BATCH_SIZE == 8

Digits == {"1", "2", "3", "4", "5", "6", "7", "8", "9"}
DecDigits == Digits \cup {"0"}

\* smallest index i >= from with s[i] = c, or 0
FirstIndex(s, c, from) ==
  LET I == {i \in from..Len(s) : s[i] = c}
  IN  IF I = {} THEN 0 ELSE CHOOSE i \in I : \A j \in I : i <= j

RECURSIVE SkipWs(_, _)
SkipWs(s, pos) ==
  IF pos <= Len(s) /\ s[pos] \in WhiteSpace THEN SkipWs(s, pos + 1) ELSE pos

RECURSIVE SkipDigits(_, _)
SkipDigits(s, pos) ==
  IF pos <= Len(s) /\ s[pos] \in DecDigits THEN SkipDigits(s, pos + 1) ELSE pos

\* cleaned.match(/\[[\s\S]*?\]/): from the first "[" to the first "]" after it;
\* <<>> stands for no match
JsonMatch(cleaned) ==
  LET i == FirstIndex(cleaned, "[", 1)
      j == IF i = 0 THEN 0 ELSE FirstIndex(cleaned, "]", i + 1)
  IN  IF j = 0 THEN <<>> ELSE SubSeq(cleaned, i, j)

HasPrefixAt(s, pos, w) ==
  /\ pos + Len(w) - 1 <= Len(s)
  /\ SubSeq(s, pos, pos + Len(w) - 1) = w

\* One JSON value starting at pos: [ok, val, next]; val is String(a ?? "").
JsonValueAt(s, pos) ==
  IF pos > Len(s) THEN [ok |-> FALSE, val |-> <<>>, next |-> pos]
  ELSE IF s[pos] = "\"" THEN
    LET k == FirstIndex(s, "\"", pos + 1)
        body == IF k = 0 THEN <<>> ELSE SubSeq(s, pos + 1, k - 1)
    IN  [ok |-> k # 0 /\ \A i \in 1..Len(body) : body[i] \notin {"\n", "\t"},
         val |-> body, next |-> k + 1]
  ELSE IF s[pos] = "0" THEN
    [ok |-> TRUE, val |-> <<"0">>, next |-> pos + 1]
  ELSE IF s[pos] \in Digits THEN
    LET k == SkipDigits(s, pos)
    IN  [ok |-> TRUE, val |-> SubSeq(s, pos, k - 1), next |-> k]
  ELSE IF HasPrefixAt(s, pos, <<"n", "u", "l", "l">>) THEN
    [ok |-> TRUE, val |-> <<>>, next |-> pos + 4]
  ELSE IF HasPrefixAt(s, pos, <<"t", "r", "u", "e">>) THEN
    [ok |-> TRUE, val |-> <<"t", "r", "u", "e">>, next |-> pos + 4]
  ELSE [ok |-> FALSE, val |-> <<>>, next |-> pos]

\* The elements of a JSON array text after its "[": [ok, arr].
RECURSIVE JsonElements(_, _, _)
JsonElements(s, pos, acc) ==
  LET v == JsonValueAt(s, SkipWs(s, pos))
      q == SkipWs(s, v.next)
  IN  IF ~v.ok \/ q > Len(s) THEN [ok |-> FALSE, arr |-> <<>>]
      ELSE IF s[q] = "]" THEN [ok |-> q = Len(s), arr |-> Append(acc, v.val)]
      ELSE IF s[q] = "," THEN JsonElements(s, q + 1, Append(acc, v.val))
      ELSE [ok |-> FALSE, arr |-> <<>>]

\* JSON.parse of a text that starts with "[" and ends at its first "]"
JsonParseArray(s) ==
  LET q == SkipWs(s, 2)
  IN  IF Len(s) < 2 \/ s[1] # "[" THEN [ok |-> FALSE, arr |-> <<>>]
      ELSE IF q = Len(s) /\ s[q] = "]" THEN [ok |-> TRUE, arr |-> <<>>]
      ELSE JsonElements(s, 2, <<>>)

\* valid.includes(s) ? s : null, for s = String(a).toUpperCase().trim()
LetterOrNull(raw) ==
  LET u == Trim(ToUpperCase(raw))
  IN  IF Len(u) = 1 /\ u[1] \in VALID_ANSWERS THEN u[1] ELSE NULL

\* cleaned.match(/["']?([A-E])["']?/g): one match per capital A-E of the text
LetterMatch(cleaned) == SelectSeq(cleaned, LAMBDA c : c \in VALID_ANSWERS)

parseSolveResponse(text, expectedCount) ==
  LET cleaned == Trim(text)
      jsonMatch == JsonMatch(cleaned)
      parsed == IF jsonMatch = <<>> THEN [ok |-> FALSE, arr |-> <<>>]
                ELSE JsonParseArray(jsonMatch)
      letterMatch == LetterMatch(cleaned)
  IN  IF parsed.ok
        THEN LET arr == Slice(parsed.arr, expectedCount)
             IN  [i \in 1..Len(arr) |-> LetterOrNull(arr[i])]
      ELSE IF letterMatch # <<>>
        THEN LET ms == Slice(letterMatch, expectedCount)
             IN  [i \in 1..Len(ms) |-> LetterOrNull(<<ms[i]>>)]
      ELSE [i \in 1..expectedCount |-> NULL]


(***************************************************************************)
(* State.  The hosted store is modelled table by table as a set of rows;   *)
(* a statement on it is atomic, and a handler's statements interleave with  *)
(* those of the other requests in flight.  The store fails a statement     *)
(* only where the handler inspects the statement's error.                  *)
(***************************************************************************)
VARIABLES
  apiKey,           \* process.env.GEMINI_API_KEY is set
  pdf_uploads,      \* rows [id, user_email, storage_path]
  questions,        \* rows [id, upload_id, question_number, correct_answer]
  attempts,         \* rows [id, upload_id, started_at, completed_at, ...counts]
  attempt_answers,  \* rows [id, attempt_id, question_id, user_answer, ...]
  storage,          \* keys of the objects of bucket exam-pdfs
  idSeq,            \* [uploads, attempts, answers]: the row-id generators
  ans,              \* answer-submission request of each worker
  comp,             \* completion request of each worker
  ext,              \* the extraction request
  started,          \* [answer, complete, extract]: requests started so far
  log,              \* history: [finalize, solve, extract] external effects
  page,             \* the passage panel: [kind, content, html]
  own,              \* the request of an Upload's owner (delete, publish)
  sta,              \* the exam-start request
  calc              \* a value under one of the sources' functions: [kind, input, output]

vars == <<apiKey, pdf_uploads, questions, attempts, attempt_answers, storage,
          idSeq, ans, comp, ext, started, log, page, own, sta, calc>>

\* what the API routes of the exam leave alone
aside == <<page, own, sta, calc>>

store == <<pdf_uploads, questions, attempts, attempt_answers, storage, idSeq>>

\* no function has been applied
CalcIdle == [kind |-> "none", input |-> <<>>, output |-> <<>>]

AnsProcs == {"a1", "a2"}
CompProcs == {"c1", "c2"}

\* row identifiers, as the store generates them
UploadId(n) == <<"upload", n>>
AttemptId(n) == <<"attempt", n>>
QuestionId(u, n) == <<"question", u[2], n>>

\* the exam under test, a second exam of another owner, the attempt under
\* test and an attempt identifier that names no row
ExamUpload == UploadId(1)
OtherUpload == UploadId(2)
ExamAttempt == AttemptId(1)
MissingAttempt == AttemptId(2)

\* the clock readings of new Date() at finalize (milliseconds)
Times == {400, 3999}

QuestionsOf(u) == {q \in questions : q.upload_id = u}

\* .order("question_number", { ascending: true })
\* (question numbers are unique within an upload)
OrderByNumber(Q) ==
  [i \in 1..Cardinality(Q) |->
     CHOOSE x \in Q :
       Cardinality({y \in Q : y.question_number < x.question_number}) = i - 1]

\* rows as the store returns them, in the order of their insertion
OrderById(R) ==
  [i \in 1..Cardinality(R) |->
     CHOOSE x \in R : Cardinality({y \in R : y.id < x.id}) = i - 1]

AnswersOf(a) == {r \in attempt_answers : r.attempt_id = a}

AnswersOfPair(a, q) ==
  {r \in attempt_answers : r.attempt_id = a /\ r.question_id = q}

Range(f) == {f[i] : i \in DOMAIN f}


(***************************************************************************)
(* POST /api/exam/answer (src/app/api/exams/published/route.ts:97-189).    *)
(***************************************************************************)
AnsIdle ==
  [pc |-> "idle", attemptId |-> Nil, questionId |-> Nil,
   normalizedAnswer |-> NULL, isFlagged |-> FALSE, isCorrect |-> FALSE,
   existing |-> FALSE, status |-> 0, error |-> ""]

AnsDone(status, error) ==
  [AnsIdle EXCEPT !.pc = "done", !.status = status, !.error = error]

\* request bodies
AttemptInputs == {Nil, ExamAttempt}
QuestionInputs ==
  {Nil, QuestionId(ExamUpload, 1), QuestionId(OtherUpload, 1)}
AnswerInputs == {Nil, <<>>, <<"A">>, <<"b", " ">>, <<"F">>}

\* userAnswer != null && userAnswer !== "" ? String(userAnswer).toUpperCase().trim() : null
NormalizeAnswer(userAnswer) ==
  IF userAnswer # Nil /\ userAnswer # <<>>
    THEN Trim(ToUpperCase(userAnswer)) ELSE Nil

\* a variant of the check that lets every letter through
AnyAnswer(normalizedAnswer) == TRUE

IsValidAnswer(normalizedAnswer) ==
  Len(normalizedAnswer) = 1 /\ normalizedAnswer[1] \in VALID_ANSWERS

\* a stored letter as the text String(...) gives
Text(letter) == IF letter = NULL THEN Nil ELSE <<letter>>

\* question?.correct_answer?.toString().toUpperCase().trim() ?? null
CorrectAnswerOf(questionId) ==
  LET Q == {q \in questions : q.id = questionId}
  IN  IF Cardinality(Q) # 1 THEN Nil
      ELSE LET q == CHOOSE x \in Q : TRUE
           IN  IF q.correct_answer = NULL THEN Nil
               ELSE Trim(ToUpperCase(Text(q.correct_answer)))

\* lines 98-136: body, validation, the question's select
AnswerBegin(p, attemptId, questionId, userAnswer, isFlagged) ==
  /\ ans[p].pc \in {"idle", "done"}
  /\ started.answer < MaxAnswerRequests
  /\ started' = [started EXCEPT !.answer = @ + 1]
  /\ LET normalizedAnswer == NormalizeAnswer(userAnswer)
         correctAnswer == CorrectAnswerOf(questionId)
     IN  ans' = [ans EXCEPT ![p] =
           IF attemptId = Nil \/ questionId = Nil
             THEN AnsDone(400, "attemptId and questionId are required.")
           ELSE IF normalizedAnswer # Nil /\ ~IsValidAnswer(normalizedAnswer)
             THEN AnsDone(400, "userAnswer must be A, B, C, D, or E.")
           ELSE [AnsIdle EXCEPT
                   !.pc = "existing",
                   !.attemptId = attemptId,
                   !.questionId = questionId,
                   !.normalizedAnswer =
                      IF normalizedAnswer = Nil THEN NULL
                      ELSE normalizedAnswer[1],
                   !.isFlagged = isFlagged,
                   !.isCorrect = /\ normalizedAnswer # Nil
                                 /\ correctAnswer # Nil
                                 /\ normalizedAnswer = correctAnswer]]
  /\ UNCHANGED <<aside, apiKey, store, comp, ext, log>>

\* a variant of the select that never finds the row
NoExisting(attemptId, questionId) == FALSE

\* lines 138-143: .maybeSingle() gives a row only when exactly one matches
Existing(attemptId, questionId) ==
  Cardinality(AnswersOfPair(attemptId, questionId)) = 1

\* lines 138-145
AnswerSelectExisting(p) ==
  /\ ans[p].pc = "existing"
  /\ ans' = [ans EXCEPT ![p].pc = "write",
               ![p].existing = Existing(ans[p].attemptId, ans[p].questionId)]
  /\ UNCHANGED <<aside, apiKey, store, comp, ext, started, log>>

\* lines 146-155: update ... .eq("attempt_id", ...).eq("question_id", ...)
UpdateAnswer(r) ==
  attempt_answers' =
    {IF x.attempt_id = r.attemptId /\ x.question_id = r.questionId
       THEN [x EXCEPT !.user_answer = r.normalizedAnswer,
                      !.is_flagged = r.isFlagged,
                      !.is_correct = r.isCorrect]
       ELSE x : x \in attempt_answers}

\* lines 164-170
InsertAnswer(r) ==
  attempt_answers' = attempt_answers \cup
    {[id |-> idSeq.answers, attempt_id |-> r.attemptId,
      question_id |-> r.questionId, user_answer |-> r.normalizedAnswer,
      is_flagged |-> r.isFlagged, ai_answer |-> NULL,
      is_correct |-> r.isCorrect]}

\* lines 145-181: the update or the insert, and the response
\* ok: the store carries the statement out (else it answers with an error)
AnswerWrite(p, ok) ==
  /\ ans[p].pc = "write"
  /\ IF ~ok THEN UNCHANGED <<attempt_answers, idSeq>>
     ELSE IF ans[p].existing
       THEN UpdateAnswer(ans[p]) /\ UNCHANGED idSeq
     ELSE /\ InsertAnswer(ans[p])
          /\ idSeq' = [idSeq EXCEPT !.answers = @ + 1]
  /\ ans' = [ans EXCEPT ![p] =
               IF ok THEN AnsDone(200, "")
               ELSE AnsDone(500, "Failed to save answer.")]
  /\ UNCHANGED <<aside, apiKey, pdf_uploads, questions, attempts, storage, comp, ext,
                 started, log>>


(***************************************************************************)
(* POST /api/exam/complete (src/app/api/exam/complete/route.ts).           *)
(***************************************************************************)
NoneYet == <<>>

CompIdle ==
  [pc |-> "idle", attemptId |-> Nil, upload_id |-> Nil, started_at |-> 0,
   allQuestions |-> <<>>, questionsNeedingAi |-> <<>>, i |-> 0,
   aiAnswerMap |-> <<>>, attemptAnswers |-> <<>>, updated |-> 0,
   toInsert |-> <<>>, counts |-> NoneYet, timeSpentSeconds |-> 0, status |-> 0, error |-> "",
   body |-> NoneYet]

CompDone(status, error, body) ==
  [CompIdle EXCEPT !.pc = "done", !.status = status, !.error = error,
                   !.body = body]

CompleteInputs == {Nil, ExamAttempt, MissingAttempt}

\* aiAnswerMap.get(id) ?? null; the map is kept as a set of <<id, letter>>
MapGet(map, id) ==
  IF \E e \in Range(map) : e[1] = id
    THEN (CHOOSE e \in Range(map) : e[1] = id)[2] ELSE NULL

\* a variant of the guard that lets a completed Attempt through
NeverCompleted(attempt) == FALSE

\* line 31: if (attempt.completed_at)
AlreadyCompleted(attempt) == attempt.completed_at # NullNum

\* lines 12-41: body, validation, the attempt's select, the completion guard
CompleteBegin(p, attemptId) ==
  /\ comp[p].pc \in {"idle", "done"}
  /\ started.complete < MaxCompleteRequests
  /\ started' = [started EXCEPT !.complete = @ + 1]
  /\ LET A == {a \in attempts : a.id = attemptId}
     IN  comp' = [comp EXCEPT ![p] =
           IF attemptId = Nil
             THEN CompDone(400, "attemptId is required.", NoneYet)
           ELSE IF Cardinality(A) # 1
             THEN CompDone(404, "Attempt not found.", NoneYet)
           ELSE LET attempt == CHOOSE a \in A : TRUE
                IN  IF AlreadyCompleted(attempt)
                      THEN CompDone(400, "Exam already completed.", NoneYet)
                    ELSE [CompIdle EXCEPT !.pc = "questions",
                                          !.attemptId = attemptId,
                                          !.upload_id = attempt.upload_id,
                                          !.started_at = attempt.started_at]]
  /\ UNCHANGED <<aside, apiKey, store, ans, ext, log>>

\* where the handler awaits next once the resolution loop is over
AfterSolve(r) == [r EXCEPT !.pc = "answers"]

\* lines 43-62: the questions' select, the unknown subset, the key
CompleteSelectQuestions(p) ==
  /\ comp[p].pc = "questions"
  /\ LET allQuestions == OrderByNumber(QuestionsOf(comp[p].upload_id))
         questionsNeedingAi ==
           SelectSeq(allQuestions, LAMBDA q :
             q.correct_answer = NULL \/ Trim(Text(q.correct_answer)) = <<>>)
         r == [comp[p] EXCEPT !.allQuestions = allQuestions,
                              !.questionsNeedingAi = questionsNeedingAi]
     IN  comp' = [comp EXCEPT ![p] =
           IF Len(allQuestions) = 0
             THEN CompDone(400, "No questions found.", NoneYet)
           ELSE IF Len(questionsNeedingAi) > 0 /\ apiKey
             THEN [r EXCEPT !.pc = "solve"]
           ELSE AfterSolve(r)]
  /\ UNCHANGED <<aside, apiKey, store, ans, ext, started, log>>


\* the texts the resolution model may answer a batch of n questions with:
\* the contracted array, a short array with an invalid and a lower-case
\* token, and prose
JsonArrayText(tokens) ==
  LET Item(i) == (IF i = 1 THEN <<>> ELSE <<",">>) \o <<"\"">> \o tokens[i] \o <<"\"">>
      Items[i \in 0..Len(tokens)] == IF i = 0 THEN <<>> ELSE Items[i - 1] \o Item(i)
  IN  <<"[">> \o Items[Len(tokens)] \o <<"]">>

SolveTexts(n) ==
  << JsonArrayText([i \in 1..n |-> IF i % 2 = 1 THEN <<"A">> ELSE <<"B">>]),
     JsonArrayText([i \in 1..(n - 1) |-> IF i = 1 THEN <<"F">> ELSE <<"b">>]),
     <<"B", " ", "o", "r", " ", "A">> >>

SolveOutcomes(n) ==
  {[threw |-> TRUE, text |-> <<>>]} \cup
  {[threw |-> FALSE, text |-> t] : t \in Range(SolveTexts(n))}

AnswerAt(answers, j) == IF j <= Len(answers) THEN answers[j] ELSE NULL

\* lines 84-89: batch.forEach((q, j) => ... aiAnswerMap.set(q.id, ans))
SetBatchAnswers(aiAnswerMap, batch, answers) ==
  aiAnswerMap \o
  SelectSeq([j \in 1..Len(batch) |-> <<batch[j].id, AnswerAt(answers, j)>>],
            LAMBDA e : e[2] # NULL /\ e[2] \in VALID_ANSWERS)

\* a variant of the slice that takes every question from position i on
BatchRest(r) ==
  SubSeq(r.questionsNeedingAi, r.i + 1, Len(r.questionsNeedingAi))

\* lines 64-65: questionsNeedingAi.slice(i, i + BATCH_SIZE)
Batch(r) ==
  SubSeq(r.questionsNeedingAi, r.i + 1,
         Min(r.i + BATCH_SIZE, Len(r.questionsNeedingAi)))

\* a variant of the batch turn in which a throwing model call ends the request
SolveBatchAborting(r, batch, outcome) ==
  IF outcome.threw THEN CompDone(500, "fetch failed", NoneYet)
  ELSE [r EXCEPT
          !.i = r.i + BATCH_SIZE,
          !.aiAnswerMap =
             SetBatchAnswers(@, batch,
                             parseSolveResponse(outcome.text, Len(batch)))]

\* lines 66-92: the try block (the call, the parse, the map's entries) and
\* its catch, which only logs
SolveBatch(r, batch, outcome) ==
  [r EXCEPT
     !.i = r.i + BATCH_SIZE,
     !.aiAnswerMap =
        IF outcome.threw THEN @
        ELSE SetBatchAnswers(@, batch,
                             parseSolveResponse(outcome.text, Len(batch)))]

\* lines 64-93: one turn of the batch loop, the model call included;
\* outcome is what the model does: [threw, text]
CompleteSolveBatch(p, outcome) ==
  /\ comp[p].pc = "solve"
  /\ LET r == comp[p]
         n == Len(r.questionsNeedingAi)
         batch == Batch(r)
         next == SolveBatch(r, batch, outcome)
     IN  /\ comp' = [comp EXCEPT ![p] =
                       IF next.i < n THEN next ELSE AfterSolve(next)]
         /\ log' = [log EXCEPT !.solve = Append(@,
                      [first |-> r.i + 1, batch |-> batch,
                       threw |-> outcome.threw, text |-> outcome.text])]
  /\ UNCHANGED <<aside, apiKey, store, ans, ext, started>>

\* line 104: the known answer, else the resolved one, else null; a question
\* that is not among allQuestions has no entry
QuestionCorrect(r, questionId) ==
  LET Q == {q \in Range(r.allQuestions) : q.id = questionId}
  IN  IF Q = {} THEN NULL
      ELSE LET q == CHOOSE x \in Q : TRUE
               known == IF q.correct_answer = NULL THEN <<>>
                        ELSE ToUpperCase(Trim(Text(q.correct_answer)))
           IN  IF known # <<>> THEN known[1] ELSE MapGet(r.aiAnswerMap, questionId)

\* lines 124-126: the questions the snapshot holds no answer for
Unanswered(r, attemptAnswers) ==
  SelectSeq(r.allQuestions, LAMBDA q :
    \A k \in 1..Len(attemptAnswers) : attemptAnswers[k].question_id # q.id)

\* where the handler awaits next, the update loop at position r.updated
AfterUpdate(r) ==
  IF r.updated < Len(r.attemptAnswers) THEN [r EXCEPT !.pc = "update"]
  ELSE IF r.toInsert # <<>> THEN [r EXCEPT !.pc = "insert"]
  ELSE [r EXCEPT !.pc = "final"]

\* lines 96-99: the attempt's answers, as read once
CompleteSelectAnswers(p) ==
  /\ comp[p].pc = "answers"
  /\ LET rows == OrderById(AnswersOf(comp[p].attemptId))
         attemptAnswers ==
           [k \in 1..Len(rows) |->
              [id |-> rows[k].id, question_id |-> rows[k].question_id,
               user_answer |-> rows[k].user_answer]]
     IN  comp' = [comp EXCEPT ![p] =
           AfterUpdate([comp[p] EXCEPT
             !.attemptAnswers = attemptAnswers,
             !.updated = 0,
             !.toInsert = Unanswered(comp[p], attemptAnswers)])]
  /\ UNCHANGED <<aside, apiKey, store, ans, ext, started, log>>

\* a variant of the comparison without the two non-null tests
IsCorrectLoose(user_answer, correctAnswer) ==
  Text(user_answer) = Text(correctAnswer)

\* lines 109-113
IsCorrect(user_answer, correctAnswer) ==
  LET userAnswer == IF user_answer = NULL THEN <<>>
                    ELSE Trim(ToUpperCase(Text(user_answer)))
  IN  /\ userAnswer # <<>>
      /\ correctAnswer # NULL
      /\ userAnswer = <<correctAnswer>>

\* lines 108-122: one turn of the update loop
CompleteUpdateAnswer(p) ==
  /\ comp[p].pc = "update"
  /\ LET r == comp[p]
         aa == r.attemptAnswers[r.updated + 1]
         isCorrect == IsCorrect(aa.user_answer, QuestionCorrect(r, aa.question_id))
         aiAnswer == MapGet(r.aiAnswerMap, aa.question_id)
     IN  /\ attempt_answers' =
              {IF x.id = aa.id
                 THEN [x EXCEPT !.ai_answer = aiAnswer, !.is_correct = isCorrect]
                 ELSE x : x \in attempt_answers}
         /\ comp' = [comp EXCEPT ![p] = AfterUpdate([r EXCEPT !.updated = @ + 1])]
  /\ UNCHANGED <<aside, apiKey, pdf_uploads, questions, attempts, storage, idSeq, ans,
                 ext, started, log>>

\* a variant of the backfill loop's turn that inserts no row
CompleteSkipAnswer(p) ==
  /\ comp[p].pc = "insert"
  /\ comp' = [comp EXCEPT ![p] = AfterUpdate([comp[p] EXCEPT !.toInsert = Tail(@)])]
  /\ UNCHANGED <<aside, apiKey, store, ans, ext, started, log>>

\* lines 125-136: one turn of the backfill loop
CompleteInsertAnswer(p) ==
  /\ comp[p].pc = "insert"
  /\ LET r == comp[p]
         q == Head(r.toInsert)
     IN  /\ attempt_answers' = attempt_answers \cup
              {[id |-> idSeq.answers, attempt_id |-> r.attemptId,
                question_id |-> q.id, user_answer |-> NULL,
                is_flagged |-> FALSE,
                ai_answer |-> MapGet(r.aiAnswerMap, q.id),
                is_correct |-> FALSE]}
         /\ idSeq' = [idSeq EXCEPT !.answers = @ + 1]
         /\ comp' = [comp EXCEPT ![p] = AfterUpdate([r EXCEPT !.toInsert = Tail(@)])]
  /\ UNCHANGED <<aside, apiKey, pdf_uploads, questions, attempts, storage, ans, ext,
                 started, log>>

\* lines 143-154
CountAnswers(finalAnswers) ==
  [correctCount |->
     Cardinality({a \in finalAnswers : a.user_answer # NULL /\ a.is_correct}),
   incorrectCount |->
     Cardinality({a \in finalAnswers : a.user_answer # NULL /\ ~a.is_correct}),
   unansweredCount |->
     Cardinality({a \in finalAnswers : a.user_answer = NULL})]

\* lines 138-154: the final answers' select and the aggregates
CompleteSelectFinal(p) ==
  /\ comp[p].pc = "final"
  /\ comp' = [comp EXCEPT ![p].pc = "finalize",
                ![p].counts = CountAnswers(AnswersOf(comp[p].attemptId))]
  /\ UNCHANGED <<aside, apiKey, store, ans, ext, started, log>>

\* line 158
TimeSpentSeconds(completedAt, startedAt) ==
  Max(0, (completedAt - startedAt) \div 1000)

\* lines 156-169: the finalize write
CompleteFinalize(p, completedAt) ==
  /\ comp[p].pc = "finalize"
  /\ LET r == comp[p]
           timeSpentSeconds == TimeSpentSeconds(completedAt, r.started_at)
       IN  /\ attempts' =
                {IF a.id = r.attemptId
                   THEN [a EXCEPT !.completed_at = completedAt,
                                  !.time_spent_seconds = timeSpentSeconds,
                                  !.correct_count = r.counts.correctCount,
                                  !.incorrect_count = r.counts.incorrectCount,
                                  !.unanswered_count = r.counts.unansweredCount]
                   ELSE a : a \in attempts}
           /\ comp' = [comp EXCEPT ![p].pc = "respond",
                         ![p].timeSpentSeconds = timeSpentSeconds]
           /\ log' = [log EXCEPT !.finalize = Append(@, r.attemptId)]
  /\ UNCHANGED <<aside, apiKey, pdf_uploads, questions, attempt_answers, storage, idSeq,
                 ans, ext, started>>


(***************************************************************************)
(* Line 172 is computed in IEEE 754 double precision.  A positive double   *)
(* is kept as [mant, exp]: mant the 53 bits of its significand, most       *)
(* significant first (mant[1] = 1), and its value is 0.mant * 2^exp.       *)
(***************************************************************************)
SignificandBits == 53

\* the w low bits of a natural number, most significant first
ToBits(n, w) == [i \in 1..w |-> (n \div (2 ^ (w - i))) % 2]

\* the number of bits of a positive integer below 2^30
BitLength(n) == CHOOSE w \in 1..30 : 2 ^ (w - 1) <= n /\ n < 2 ^ w

\* the bits of a positive integer, most significant first
BitsOf(n) == ToBits(n, BitLength(n))

\* the integer of a few bits
RECURSIVE IntOf(_)
IntOf(bits) ==
  IF bits = <<>> THEN 0
  ELSE 2 * IntOf(SubSeq(bits, 1, Len(bits) - 1)) + bits[Len(bits)]

\* 2^i modulo t, for i up to 60 and t below 2^15
PowerMod(i, t) ==
  IF i <= 30 THEN (2 ^ i) % t
  ELSE (((2 ^ 30) % t) * ((2 ^ (i - 30)) % t)) % t

\* the first n bits of r / t after the binary point (0 <= r < t): the i-th
\* is the one long division gives from the remainder of r * 2^(i-1)
QuotientBits(r, t, n) ==
  [i \in 1..n |-> IF 2 * ((r * PowerMod(i - 1, t)) % t) >= t THEN 1 ELSE 0]

\* the remainder those n bits leave
QuotientRemainder(r, t, n) == (r * PowerMod(n, t)) % t

\* the zero bits of r / t between the binary point and its first one bit
\* (0 < r < t)
LeadingZeros(r, t) == CHOOSE z \in 0..30 : (2 ^ z) * r < t /\ (2 ^ (z + 1)) * r >= t

\* the bits of the integer plus one (some bit is 0)
Increment(bits) ==
  LET j == CHOOSE i \in 1..Len(bits) :
             bits[i] = 0 /\ \A k \in (i + 1)..Len(bits) : bits[k] = 1
  IN  [i \in 1..Len(bits) |->
         IF i < j THEN bits[i] ELSE IF i = j THEN 1 ELSE 0]

\* round to nearest, ties to even: bits (more than 53 of them, bits[1] = 1)
\* followed by a tail that is non-zero iff sticky
RoundToDouble(bits, sticky, exp) ==
  LET kept == SubSeq(bits, 1, SignificandBits)
      guard == bits[SignificandBits + 1]
      tail == sticky \/ \E i \in (SignificandBits + 2)..Len(bits) : bits[i] = 1
      up == guard = 1 /\ (tail \/ kept[SignificandBits] = 1)
  IN  IF ~up THEN [mant |-> kept, exp |-> exp]
      ELSE IF \A i \in 1..SignificandBits : kept[i] = 1
        THEN [mant |-> [i \in 1..SignificandBits |-> IF i = 1 THEN 1 ELSE 0],
              exp |-> exp + 1]
      ELSE [mant |-> Increment(kept), exp |-> exp]

\* c / t for positive integers
Divide(c, t) ==
  LET q == c \div t
      r == c % t
      n == SignificandBits + 1
  IN  IF q > 0
        THEN RoundToDouble(BitsOf(q) \o QuotientBits(r, t, n),
                           QuotientRemainder(r, t, n) # 0, Len(BitsOf(q)))
        ELSE LET z == LeadingZeros(r, t)
             IN  RoundToDouble(QuotientBits(r * (2 ^ z), t, n),
                               QuotientRemainder(r * (2 ^ z), t, n) # 0, 0 - z)

\* Multiplication works on limbs of LimbBits bits, least significant last.
LimbBits == 13

Limbs(bits) ==
  LET n == (Len(bits) + LimbBits - 1) \div LimbBits
      padded == [i \in 1..(n * LimbBits - Len(bits)) |-> 0] \o bits
  IN  [j \in 1..n |->
         IntOf(SubSeq(padded, (j - 1) * LimbBits + 1, j * LimbBits))]

\* the carry out of limb j when the limbs are multiplied by k
RECURSIVE CarryOut(_, _, _)
CarryOut(limbs, k, j) ==
  IF j > Len(limbs) THEN 0
  ELSE (limbs[j] * k + CarryOut(limbs, k, j + 1)) \div (2 ^ LimbBits)

RECURSIVE DropZeros(_)
DropZeros(bits) ==
  IF bits # <<>> /\ bits[1] = 0 THEN DropZeros(Tail(bits)) ELSE bits

RECURSIVE Concat(_)
Concat(seqs) == IF seqs = <<>> THEN <<>> ELSE Head(seqs) \o Concat(Tail(seqs))

\* the bits of k times the integer of the given bits (k below 2^13)
MultiplyBits(bits, k) ==
  LET limbs == Limbs(bits)
      out == [j \in 1..Len(limbs) |->
                ToBits((limbs[j] * k + CarryOut(limbs, k, j + 1))
                         % (2 ^ LimbBits), LimbBits)]
  IN  DropZeros(ToBits(CarryOut(limbs, k, 1), LimbBits) \o Concat(out))

\* x * k for a double x and a small positive integer k
Multiply(x, k) ==
  LET product == MultiplyBits(x.mant, k) \o <<0>>
  IN  RoundToDouble(product, FALSE,
                    x.exp + (Len(product) - 1) - SignificandBits)

\* Math.round of a positive double below 2^31: the nearest integer, a half
\* going up
MathRound(x) ==
  IF x.exp < 0 THEN 0
  ELSE IntOf(SubSeq(x.mant, 1, x.exp)) + x.mant[x.exp + 1]

\* line 172: Math.round((correctCount / totalQuestions) * 100)
Percentage(correctCount, totalQuestions) ==
  IF totalQuestions > 0 /\ correctCount > 0
    THEN MathRound(Multiply(Divide(correctCount, totalQuestions), 100))
    ELSE 0

\* lines 185-195: new Map(rows.map(a => [a.question_id, a])) keeps, for a
\* question, the last row read
Breakdown(qs, rows) ==
  [k \in 1..Len(qs) |->
     LET mine == SelectSeq(rows, LAMBDA a : a.question_id = qs[k].id)
         a == mine[Len(mine)]
         known == IF qs[k].correct_answer = NULL THEN <<>>
                  ELSE ToUpperCase(Trim(Text(qs[k].correct_answer)))
     IN  [questionNumber |-> qs[k].question_number,
          userAnswer |-> IF mine = <<>> THEN NULL ELSE a.user_answer,
          correctAnswer |-> IF known # <<>> THEN known[1]
                            ELSE IF mine = <<>> THEN NULL ELSE a.ai_answer,
          isCorrect |-> IF mine = <<>> THEN FALSE ELSE a.is_correct]]

\* lines 171-206: the two selects of the breakdown and the response
CompleteRespond(p) ==
  /\ comp[p].pc = "respond"
  /\ LET r == comp[p]
         totalQuestions == Len(r.allQuestions)
     IN  comp' = [comp EXCEPT ![p] =
           CompDone(200, "",
             [ok |-> TRUE,
              total |-> totalQuestions,
              correctCount |-> r.counts.correctCount,
              incorrectCount |-> r.counts.incorrectCount,
              unansweredCount |-> r.counts.unansweredCount,
              percentage |-> Percentage(r.counts.correctCount, totalQuestions),
              timeSpentSeconds |-> r.timeSpentSeconds,
              breakdown |-> Breakdown(OrderByNumber(QuestionsOf(r.upload_id)),
                                      OrderById(AnswersOf(r.attemptId)))])]
  /\ UNCHANGED <<aside, apiKey, store, ans, ext, started, log>>

\* rows of the store
UploadRow(id, email, path) ==
  [id |-> id, user_email |-> email, storage_path |-> path,
   is_published |-> FALSE]

AttemptRow(id, u, startedAt) ==
  [id |-> id, user_email |-> <<"p", "@", "x">>, upload_id |-> u,
   started_at |-> startedAt, completed_at |-> NullNum, time_spent_seconds |-> NullNum,
   correct_count |-> NullNum, incorrect_count |-> NullNum,
   unanswered_count |-> NullNum]

QuestionRow(u, n, correct) ==
  [id |-> QuestionId(u, n), upload_id |-> u, question_number |-> n,
   correct_answer |-> correct]

(***************************************************************************)
(* POST /api/upload/analyze (src/app/api/upload/analyze/route.ts).         *)
(***************************************************************************)
MAX_FILE_SIZE_MB == 50
MAX_FILE_BYTES == MAX_FILE_SIZE_MB * 1024 * 1024

\* src/unnamed/part_006 lines 6-12, each key as its characters
AP_CSA ==
  <<"A", "P", "_", "C", "S", "A">>

AP_MICROECONOMICS ==
  <<"A", "P", "_", "M", "I", "C", "R", "O", "E", "C", "O", "N", "O",
  "M", "I", "C", "S">>

AP_MACROECONOMICS ==
  <<"A", "P", "_", "M", "A", "C", "R", "O", "E", "C", "O", "N", "O",
  "M", "I", "C", "S">>

AP_PSYCHOLOGY ==
  <<"A", "P", "_", "P", "S", "Y", "C", "H", "O", "L", "O", "G", "Y">>

AP_STATISTICS ==
  <<"A", "P", "_", "S", "T", "A", "T", "I", "S", "T", "I", "C", "S">>

SUBJECT_KEYS ==
  {AP_CSA, AP_MICROECONOMICS, AP_MACROECONOMICS, AP_PSYCHOLOGY, AP_STATISTICS}

\* file names and store paths: the directory, the name and its extension
ExamPdf == [dir |-> "", name |-> <<"exam">>, ext |-> ".pdf"]

\* line 199: `pending/${file.name}`
PendingPath(file) == [file EXCEPT !.dir = "pending/"]

\* line 218: `${uploadId}.pdf`
StorageKey(uploadId) == [dir |-> "", name |-> uploadId, ext |-> ".pdf"]


DigitValue(c) ==
  CASE c = "0" -> 0 [] c = "1" -> 1 [] c = "2" -> 2 [] c = "3" -> 3
    [] c = "4" -> 4 [] c = "5" -> 5 [] c = "6" -> 6 [] c = "7" -> 7
    [] c = "8" -> 8 [] c = "9" -> 9

RECURSIVE DecimalValue(_)
DecimalValue(ds) ==
  IF ds = <<>> THEN 0
  ELSE 10 * DecimalValue(SubSeq(ds, 1, Len(ds) - 1)) + DigitValue(ds[Len(ds)])

\* parseInt(s, 10): leading white space, a sign, then the longest run of
\* digits; NaN when there is none
ParseInt(s) ==
  LET t == TrimStart(s)
      signed == t # <<>> /\ t[1] \in {"-", "+"}
      from == IF signed THEN 2 ELSE 1
      to == SkipDigits(t, from)
      magnitude == DecimalValue(SubSeq(t, from, to - 1))
  IN  [nan |-> to = from,
       value |-> IF signed /\ t[1] = "-" THEN 0 - magnitude ELSE magnitude]

\* A response text of the extraction model is kept by its structure: whether
\* a code fence wraps it, and the JSON text inside ("blank", "malformed",
\* "array" with its items, or "object" for any other JSON value).
IsEmptyText(text) == ~text.fenced /\ text.json = "blank"

\* lines 22-30: the fence is stripped, JSON.parse throws on text that is not
\* JSON, and a value that is not an array gives []
parseJsonFromResponse(raw) ==
  IF raw.json \in {"blank", "malformed"}
    THEN [threw |-> TRUE, questions |-> <<>>]
  ELSE IF raw.json = "array" THEN [threw |-> FALSE, questions |-> raw.items]
  ELSE [threw |-> FALSE, questions |-> <<>>]

\* lines 32-37
normalizeCorrect(value) ==
  IF value = Nil THEN NULL
  ELSE LET s == Trim(ToUpperCase(value))
       IN  IF Len(s) = 1 /\ s[1] \in VALID_ANSWERS THEN s[1] ELSE NULL

\* a multipart form: a field that is absent is Nil; hasFile tells whether
\* the file part is there
NoForm ==
  [hasFile |-> FALSE, file |-> [name |-> ExamPdf, type |-> "", size |-> 0],
   subject |-> Nil, questionCount |-> Nil, userEmail |-> Nil]

NoText == [fenced |-> FALSE, json |-> "none", items |-> <<>>]

\* one request of the handler: its form, its locals, the calls it has made
\* (called: the model; archive: the object store) and its response
ExtIdle ==
  [pc |-> "idle", form |-> NoForm, userEmail |-> Nil, subject |-> Nil,
   questionCount |-> 0, called |-> FALSE, questions |-> <<>>,
   text |-> NoText, uploadId |-> Nil, archive |-> "none", status |-> 0,
   error |-> "", examId |-> Nil]

ExtFail(r, status, error) ==
  [r EXCEPT !.pc = "done", !.status = status, !.error = error]

\* line 295
ExtOk(r) == [r EXCEPT !.pc = "done", !.status = 200, !.examId = r.uploadId]

\* a variant of the subject check that accepts every subject
AnySubject(subject) == TRUE

\* line 130: subject && SUBJECT_KEYS.includes(subject)
ValidSubject(subject) ==
  subject # Nil /\ subject # <<>> /\ subject \in SUBJECT_KEYS

\* lines 104-150: the form's fields and their checks, in the handler's order
Validate(r) ==
  LET form == r.form
      userEmail == IF form.userEmail = Nil THEN Nil ELSE Trim(form.userEmail)
      subject == IF form.subject = Nil THEN Nil ELSE Trim(form.subject)
      questionCount ==
        ParseInt(IF form.questionCount = Nil THEN <<>> ELSE form.questionCount)
  IN  IF ~form.hasFile
        THEN ExtFail(r, 400, "No PDF file provided.")
      ELSE IF form.file.type # "application/pdf"
        THEN ExtFail(r, 400, "File must be a PDF.")
      ELSE IF form.file.size > MAX_FILE_BYTES
        THEN ExtFail(r, 400, "PDF must be under 50 MB.")
      ELSE IF ~ValidSubject(subject)
        THEN ExtFail(r, 400, "Invalid or missing subject.")
      ELSE IF questionCount.nan \/ questionCount.value < 1
        THEN ExtFail(r, 400, "Question count must be a positive number.")
      ELSE IF userEmail = Nil \/ userEmail = <<>>
        THEN ExtFail(r, 401, "User email is required.")
      ELSE [r EXCEPT !.pc = "generate",
                     !.userEmail = userEmail,
                     !.subject = subject,
                     !.questionCount = questionCount.value]

\* lines 96-150
ExtractBegin(form) ==
  /\ ext.pc \in {"idle", "done"}
  /\ started.extract < MaxExtractRequests
  /\ started' = [started EXCEPT !.extract = @ + 1]
  /\ LET r == [ExtIdle EXCEPT !.form = form]
     IN  ext' = IF ~apiKey
                  THEN ExtFail(r, 500, "GEMINI_API_KEY is not set. Add it to .env for PDF analysis.")
                  ELSE Validate(r)
  /\ log' = [log EXCEPT !.before = store]
  /\ UNCHANGED <<aside, apiKey, store, ans, comp>>

\* lines 152-190: the model call and the parse of its text; outcome is
\* [threw |-> TRUE, message] or [threw |-> FALSE, text]
ExtractGenerate(outcome) ==
  /\ ext.pc = "generate"
  /\ log' = [log EXCEPT !.extract = Append(@, ext.userEmail)]
  /\ LET r == [ext EXCEPT !.called = TRUE,
                          !.text = IF outcome.threw THEN NoText
                                   ELSE outcome.text]
     IN  ext' =
           IF outcome.threw THEN ExtFail(r, 500, outcome.message)
           ELSE IF IsEmptyText(outcome.text)
             THEN ExtFail(r, 502, "Gemini returned no content. The PDF may be unreadable or empty.")
           ELSE LET parsed == parseJsonFromResponse(outcome.text)
                IN  IF parsed.threw
                      THEN ExtFail(r, 502, "Failed to parse Gemini response as JSON. Try again or use a simpler PDF.")
                    ELSE [r EXCEPT !.pc = "upload",
                                   !.questions = parsed.questions]
  /\ UNCHANGED <<aside, apiKey, store, ans, comp, started>>

\* lines 194-214: the Upload row's insert
ExtractInsertUpload(ok) ==
  /\ ext.pc = "upload"
  /\ IF ok
       THEN LET id == UploadId(idSeq.uploads)
            IN  /\ pdf_uploads' = pdf_uploads \cup
                     {UploadRow(id, ext.userEmail,
                                PendingPath(ext.form.file.name))}
                /\ idSeq' = [idSeq EXCEPT !.uploads = @ + 1]
                /\ ext' = [ext EXCEPT !.pc = "archive", !.uploadId = id]
       ELSE /\ UNCHANGED <<pdf_uploads, idSeq>>
            /\ ext' = ExtFail(ext, 500, "Failed to save upload record.")
  /\ UNCHANGED <<aside, apiKey, questions, attempts, attempt_answers, storage, ans,
                 comp, started, log>>

\* a variant of the mapping that keeps every item of the array
QuestionRowsUncut(r) ==
  [i \in 1..Len(r.questions) |->
     QuestionRow(r.uploadId, i, normalizeCorrect(r.questions[i].correct))]

\* lines 233-281: the rows of the question batch
QuestionRows(r) ==
  LET kept == Slice(r.questions, r.questionCount)
  IN  [i \in 1..Len(kept) |->
         QuestionRow(r.uploadId, i, normalizeCorrect(kept[i].correct))]

\* line 283: with no row there is no insert, and the handler answers at once
AfterArchive(r) ==
  IF Len(QuestionRows(r)) > 0 THEN [r EXCEPT !.pc = "questions"]
  ELSE ExtOk(r)

\* a variant of the catch that answers the request with the failure
ArchiveFatal(r) == ExtFail(r, 500, "Failed to store the PDF.")

\* lines 223, 229-231: a write that fails is passed over
ArchiveFailed(r) == AfterArchive(r)

\* lines 219-223, 229-231: the object-store write; result is "ok", "error"
\* (the write's own error) or "throw"
ExtractArchive(result) ==
  /\ ext.pc = "archive"
  /\ storage' = IF result = "ok" THEN storage \cup {StorageKey(ext.uploadId)}
                ELSE storage
  /\ LET r == [ext EXCEPT !.archive = result]
     IN  ext' = IF result = "ok" THEN [r EXCEPT !.pc = "path"]
                ELSE ArchiveFailed(r)
  /\ UNCHANGED <<aside, apiKey, pdf_uploads, questions, attempts, attempt_answers,
                 idSeq, ans, comp, started, log>>

\* lines 224-227: update({ storage_path: storageKey })
ExtractSetStoragePath ==
  /\ ext.pc = "path"
  /\ pdf_uploads' =
       {IF u.id = ext.uploadId
          THEN [u EXCEPT !.storage_path = StorageKey(ext.uploadId)]
          ELSE u : u \in pdf_uploads}
  /\ ext' = AfterArchive(ext)
  /\ UNCHANGED <<aside, apiKey, questions, attempts, attempt_answers, storage, idSeq,
                 ans, comp, started, log>>

\* lines 283-295: the batch insert
ExtractInsertQuestions(ok) ==
  /\ ext.pc = "questions"
  /\ questions' = IF ok THEN questions \cup Range(QuestionRows(ext))
                  ELSE questions
  /\ ext' = IF ok THEN ExtOk(ext) ELSE [ext EXCEPT !.pc = "rollback"]
  /\ UNCHANGED <<aside, apiKey, pdf_uploads, attempts, attempt_answers, storage,
                 idSeq, ans, comp, started, log>>

\* a variant of the failure path without the compensating delete
ExtractNoRollback ==
  /\ ext.pc = "rollback"
  /\ ext' = ExtFail(ext, 500, "Failed to save questions.")
  /\ UNCHANGED <<aside, apiKey, store, ans, comp, started, log>>

\* lines 287-291: the compensating delete and the failure response
ExtractRollback ==
  /\ ext.pc = "rollback"
  /\ pdf_uploads' = {u \in pdf_uploads : u.id # ext.uploadId}
  /\ ext' = ExtFail(ext, 500, "Failed to save questions.")
  /\ UNCHANGED <<aside, apiKey, questions, attempts, attempt_answers, storage, idSeq,
                 ans, comp, started, log>>

(***************************************************************************)
(* src/app/exam/[id]/page.tsx: the passage panel of the exam page.         *)
(* Texts are sequences of characters.                                      *)
(***************************************************************************)
LowerLetters ==
  <<"a", "b", "c", "d", "e", "f", "g", "h", "i", "j", "k", "l", "m",
    "n", "o", "p", "q", "r", "s", "t", "u", "v", "w", "x", "y", "z">>

UpperLetters ==
  <<"A", "B", "C", "D", "E", "F", "G", "H", "I", "J", "K", "L", "M",
    "N", "O", "P", "Q", "R", "S", "T", "U", "V", "W", "X", "Y", "Z">>

\* [a-zA-Z]
Letters == Range(LowerLetters) \cup Range(UpperLetters)

\* [a-zA-Z0-9]
Alphanumerics == Letters \cup DecDigits

\* \w: the characters on either side of which \b looks
WordChars == Alphanumerics \cup {"_"}

\* the i flag: letters compare by their lower case
ToLowerChar(c) ==
  IF c \in Range(UpperLetters)
    THEN LowerLetters[CHOOSE i \in DOMAIN UpperLetters : UpperLetters[i] = c]
    ELSE c

ToLowerCase(s) == [i \in 1..Len(s) |-> ToLowerChar(s[i])]

\* String.prototype.includes
Includes(s, w) ==
  \E i \in 1..(Len(s) - Len(w) + 1) : SubSeq(s, i, i + Len(w) - 1) = w

\* the word w (in lower case) stands at pos, letter case ignored
HasWordAt(s, pos, w) ==
  /\ pos + Len(w) - 1 <= Len(s)
  /\ ToLowerCase(SubSeq(s, pos, pos + Len(w) - 1)) = w

\* the least element of a non-empty set of positions
Least(I) == CHOOSE i \in I : \A j \in I : i <= j

\* lines 72-76
isTableHtml(text) ==
  /\ text # Nil
  /\ Trim(text) # <<>>
  /\ Includes(Trim(text), <<"<", "t", "a", "b", "l", "e">>)
  /\ Includes(Trim(text), <<"<", "/", "t", "a", "b", "l", "e", ">">>)

\* <\/? : where the tag name begins after "<" at i
NameStart(s, i) == IF i < Len(s) /\ s[i + 1] = "/" THEN i + 2 ELSE i + 1

\* line 81: /<script\b[^>]*>[\s\S]*?<\/script>/gi tried at i; the position
\* of the last character matched, or 0. The opening tag ends at the first
\* ">" and the block at the first "</script>" after it.
ScriptEnd(s, i) ==
  LET open == <<"<", "s", "c", "r", "i", "p", "t">>
      close == <<"<", "/", "s", "c", "r", "i", "p", "t", ">">>
      after == i + Len(open)
      gt == FirstIndex(s, ">", after)
      C == {c \in (gt + 1)..Len(s) : HasWordAt(s, c, close)}
  IN  IF /\ HasWordAt(s, i, open)
         /\ after <= Len(s)
         /\ s[after] \notin WordChars
         /\ gt # 0
         /\ C # {}
        THEN Least(C) + Len(close) - 1
        ELSE 0

\* line 82: the alternatives of (table|thead|tbody|tr|th|td), in order
AllowedTags ==
  <<<<"t", "a", "b", "l", "e">>, <<"t", "h", "e", "a", "d">>,
    <<"t", "b", "o", "d", "y">>, <<"t", "r">>, <<"t", "h">>, <<"t", "d">>>>

\* line 82: where a tag named w that begins at i ends: after the name comes
\* ">" at once, or a white-space character and then the first ">"; 0 when
\* the alternative does not match
AllowedEndAs(s, i, w) ==
  LET n == NameStart(s, i)
      after == n + Len(w)
  IN  IF s[i] # "<" \/ ~HasWordAt(s, n, w) \/ after > Len(s) THEN 0
      ELSE IF s[after] = ">" THEN after
      ELSE IF s[after] \in WhiteSpace THEN FirstIndex(s, ">", after + 1)
      ELSE 0

\* the first alternative that matches at i, or 0
AllowedTagAt(s, i) ==
  LET K == {k \in DOMAIN AllowedTags : AllowedEndAs(s, i, AllowedTags[k]) # 0}
  IN  IF K = {} THEN 0 ELSE Least(K)

\* line 82: /<\/?(table|thead|tbody|tr|th|td)(\s[^>]*)?>/gi tried at i
AllowedEnd(s, i) ==
  IF AllowedTagAt(s, i) = 0 THEN 0
  ELSE AllowedEndAs(s, i, AllowedTags[AllowedTagAt(s, i)])

\* lines 82-84: the tag without its attributes, the name as it was written
BareTag(s, i) ==
  LET n == NameStart(s, i)
      w == AllowedTags[AllowedTagAt(s, i)]
  IN  (IF n = i + 2 THEN <<"<", "/">> ELSE <<"<">>)
        \o SubSeq(s, n, n + Len(w) - 1) \o <<">">>

\* line 85: /<\/?[a-zA-Z][a-zA-Z0-9]*\b[^>]*>/g tried at i: a letter, the
\* letters and digits after it up to a character that is not of a word,
\* then everything up to the first ">"
AnyTagEnd(s, i) ==
  LET n == NameStart(s, i)
      E == {e \in (n + 1)..Len(s) : s[e] \notin Alphanumerics}
  IN  IF /\ s[i] = "<"
         /\ n <= Len(s)
         /\ s[n] \in Letters
         /\ E # {}
         /\ s[Least(E)] \notin WordChars
        THEN FirstIndex(s, ">", Least(E))
        ELSE 0

\* the three patterns of sanitizeTableHtml
MatchEnd(re, s, i) ==
  CASE re = "script" -> ScriptEnd(s, i)
    [] re = "allowed" -> AllowedEnd(s, i)
    [] re = "any" -> AnyTagEnd(s, i)

Replacement(re, s, i) == IF re = "allowed" THEN BareTag(s, i) ELSE <<>>

\* String.prototype.replace with a g pattern: the matches are taken from
\* left to right, each search starting after the previous match
RECURSIVE ReplaceAll(_, _, _)
ReplaceAll(re, s, pos) ==
  LET M == {i \in pos..Len(s) : MatchEnd(re, s, i) # 0}
  IN  IF M = {} THEN SubSeq(s, pos, Len(s))
      ELSE SubSeq(s, pos, Least(M) - 1) \o Replacement(re, s, Least(M))
             \o ReplaceAll(re, s, MatchEnd(re, s, Least(M)) + 1)

\* line 85
StripTags(s) == ReplaceAll("any", s, 1)

\* lines 79-87
sanitizeTableHtml(html) ==
  StripTags(ReplaceAll("allowed", ReplaceAll("script", Trim(html), 1), 1))

\* lines 171-177
escapeHtmlChar(c) ==
  CASE c = "&" -> <<"&", "a", "m", "p", ";">>
    [] c = "<" -> <<"&", "l", "t", ";">>
    [] c = ">" -> <<"&", "g", "t", ";">>
    [] c = "\"" -> <<"&", "q", "u", "o", "t", ";">>
    [] OTHER -> <<c>>

escapeHtml(s) == Concat([i \in 1..Len(s) |-> escapeHtmlChar(s[i])])

\* the characters a split mode separates on, and how many in a row it needs
Separators(mode) ==
  CASE mode = "pipe" -> {"|"}
    [] mode = "tab" -> {"\t"}
    [] mode = "newline" -> {"\n"}
    [] OTHER -> WhiteSpace

\* i lies in a run of separators long enough to split
InSeparator(s, i, mode) ==
  /\ s[i] \in Separators(mode)
  /\ \/ mode # "spaces2"
     \/ (i > 1 /\ s[i - 1] \in WhiteSpace)
     \/ (i < Len(s) /\ s[i + 1] \in WhiteSpace)

\* String.prototype.split, then trim each piece and drop the empty ones
SplitTrimmed(s, mode) ==
  LET In(i) == ~InSeparator(s, i, mode)
      Starts == {i \in 1..Len(s) : In(i) /\ (i = 1 \/ ~In(i - 1))}
      Ends == {i \in 1..Len(s) : In(i) /\ (i = Len(s) \/ ~In(i + 1))}
      start(j) == CHOOSE i \in Starts : Cardinality({k \in Starts : k < i}) = j - 1
      pieces == [j \in 1..Cardinality(Starts) |->
                   Trim(SubSeq(s, start(j),
                               Least({e \in Ends : e >= start(j)})))]
  IN  SelectSeq(pieces, LAMBDA p : p # <<>>)

\* lines 92-97
splitTableRow(line, mode) == SplitTrimmed(line, mode)

\* text.trim().split(/\r?\n/).map((l) => l.trim()).filter(Boolean)
Lines(text) == SplitTrimmed(Trim(text), "newline")

\* lines 100-102: every cell is made of "-", ":" and white space
isPipeSeparatorRow(cells) ==
  /\ Len(cells) >= 1
  /\ \A k \in 1..Len(cells) :
       \A i \in 1..Len(cells[k]) : cells[k][i] \in {"-", ":"} \cup WhiteSpace

\* the rows of a pipe table: those of two cells or more that are not a
\* separator row
PipeDataRows(rows) ==
  SelectSeq(rows, LAMBDA r : Len(r) >= 2 /\ ~isPipeSeparatorRow(r))

\* lines 104-115
getTableSplitMode(lines) ==
  LET dataRows ==
        PipeDataRows([k \in 1..Len(lines) |-> splitTableRow(lines[k], "pipe")])
  IN  IF /\ Len(dataRows) >= 2
         /\ \A k \in 1..Len(dataRows) : Len(dataRows[k]) = Len(dataRows[1])
         /\ \E k \in 1..Len(lines) :
              Len(SelectSeq(lines[k], LAMBDA c : c = "|")) >= 2
        THEN "pipe"
      ELSE IF \E k \in 1..Len(lines) : Includes(lines[k], <<"\t">>) THEN "tab"
      ELSE IF \E k \in 1..Len(lines) :
                \E i \in 1..(Len(lines[k]) - 1) :
                  lines[k][i] \in WhiteSpace /\ lines[k][i + 1] \in WhiteSpace
        THEN "spaces2"
      ELSE "space1"

\* lines 123-125, 151-153: the rows of cells of a plain-text table
TableRows(text) ==
  LET lines == Lines(text)
      mode == getTableSplitMode(lines)
      rows == [k \in 1..Len(lines) |-> splitTableRow(lines[k], mode)]
  IN  IF mode = "pipe" THEN PipeDataRows(rows) ELSE rows

\* lines 118-129
looksLikeTableText(text) ==
  /\ text # Nil
  /\ Trim(text) # <<>>
  /\ ~isTableHtml(text)
  /\ Len(Lines(text)) >= 2
  /\ Len(TableRows(text)) >= 2
  /\ \A k \in 1..Len(TableRows(text)) :
       /\ Len(TableRows(text)[k]) >= 2
       /\ Len(TableRows(text)[k]) = Len(TableRows(text)[1])

\* <name>inner</name>
Element(name, inner) ==
  <<"<">> \o name \o <<">">> \o inner \o <<"<", "/">> \o name \o <<">">>

\* a row of cells, each an element of the given name
RowHtml(cells, name) ==
  Element(<<"t", "r">>,
          Concat([k \in 1..Len(cells) |-> Element(name, escapeHtml(cells[k]))]))

\* lines 148-168
plainTextToTableHtml(text) ==
  LET dataRows == TableRows(text)
      thead == IF Len(dataRows) > 0
                 THEN Element(<<"t", "h", "e", "a", "d">>,
                              RowHtml(dataRows[1], <<"t", "h">>))
                 ELSE <<>>
      tbody == IF Len(dataRows) > 1
                 THEN Element(<<"t", "b", "o", "d", "y">>,
                              Concat([k \in 1..(Len(dataRows) - 1) |->
                                        RowHtml(dataRows[k + 1], <<"t", "d">>)]))
                 ELSE <<>>
  IN  IF Lines(text) = <<>> THEN <<>>
      ELSE Element(<<"t", "a", "b", "l", "e">>, thead \o tbody)

\* nothing has been rendered
PageIdle == [kind |-> "none", content |-> <<>>, html |-> <<>>]

\* line 400: the page takes the passage of the question it shows
LoadPanel(content) ==
  /\ page.kind = "none"
  /\ page' = [page EXCEPT !.kind = "content", !.content = content]
  /\ UNCHANGED <<calc, apiKey, store, ans, comp, ext, started, log, own, sta>>

\* lines 701-714: the panel shows the passage as a table: markup goes
\* through sanitizeTableHtml, a plain-text table through
\* plainTextToTableHtml and then sanitizeTableHtml, and the result is set
\* as the panel's inner HTML
RenderPanel ==
  /\ page.kind = "content"
  /\ isTableHtml(page.content) \/ looksLikeTableText(page.content)
  /\ page' =
       IF isTableHtml(page.content)
         THEN [page EXCEPT !.kind = "markup",
                           !.html = sanitizeTableHtml(page.content)]
         ELSE [page EXCEPT !.kind = "text",
                           !.html = sanitizeTableHtml(
                                      plainTextToTableHtml(page.content))]
  /\ UNCHANGED <<calc, apiKey, store, ans, comp, ext, started, log, own, sta>>

(***************************************************************************)
(* src/app/api/upload/[id]/route.ts: DELETE and PATCH of an Upload, and    *)
(* the request that clears an email (src/unnamed/part_003).                *)
(***************************************************************************)
MaxOwnerRequests == 2

Bearer == <<"B", "e", "a", "r", "e", "r", " ">>

\* the tokens of two sessions, and a token of no session
OwnerToken == <<"t", "1">>
OtherToken == <<"t", "2">>
StaleToken == <<"t", "3">>

\* supabase.auth.getUser(token): the email of the session's user, Nil when
\* the token is of no session
SessionEmail(token) ==
  IF token = OwnerToken THEN <<"O", "@", "x", " ">>
  ELSE IF token = OtherToken THEN <<"p", "@", "x">>
  ELSE Nil

\* lines 7-19
getAuthUser(authHeader) ==
  LET token == IF authHeader # Nil /\ HasPrefixAt(authHeader, 1, Bearer)
                 THEN SubSeq(authHeader, Len(Bearer) + 1, Len(authHeader))
                 ELSE Nil
  IN  IF token = Nil \/ token = <<>>
        THEN [email |-> Nil,
              error |-> "Authentication required. Please sign in again."]
      ELSE IF SessionEmail(token) = Nil
        THEN [email |-> Nil,
              error |-> "Invalid or expired session. Please sign in again."]
      ELSE [email |-> SessionEmail(token), error |-> ""]

\* .trim().toLowerCase()
NormalizeEmail(email) == ToLowerCase(Trim(email))

OwnIdle ==
  [pc |-> "idle", kind |-> "none", n |-> 0, uploadId |-> Nil,
   authHeader |-> Nil, userEmail |-> Nil, isPublished |-> FALSE,
   storagePath |-> PendingPath(ExamPdf), attemptIds |-> {}, status |-> 0,
   error |-> ""]

OwnFail(r, status, error) ==
  [r EXCEPT !.pc = "done", !.status = status, !.error = error]

OwnOk(r) == [r EXCEPT !.pc = "done", !.status = 200]

\* lines 127-128, 238-239
IsOwner(uploadOwner, userEmail) == NormalizeEmail(uploadOwner) = userEmail

\* lines 102-111 (DELETE), 213-225 (PATCH): the id, the session, the body
OwnBegin(kind, uploadId, authHeader, isPublished) ==
  /\ own.pc \in {"idle", "done"}
  /\ own.n < MaxOwnerRequests
  /\ LET r == [OwnIdle EXCEPT !.kind = kind, !.n = own.n + 1,
                              !.uploadId = uploadId,
                              !.authHeader = authHeader,
                              !.isPublished = isPublished]
         auth == getAuthUser(authHeader)
     IN  own' = IF uploadId = Nil
                  THEN OwnFail(r, 400, "Upload ID is required.")
                ELSE IF auth.error # "" THEN OwnFail(r, 401, auth.error)
                ELSE [r EXCEPT !.pc = "fetch",
                               !.userEmail = NormalizeEmail(auth.email)]
  /\ log' = [log EXCEPT !.before = store]
  /\ UNCHANGED <<calc, apiKey, store, ans, comp, ext, started, page, sta>>

\* lines 113-133 (DELETE), 227-244 (PATCH): the Upload's select and the
\* owner check
OwnFetch(ok) ==
  /\ own.pc = "fetch"
  /\ LET U == {u \in pdf_uploads : u.id = own.uploadId}
         upload == CHOOSE u \in U : TRUE
     IN  own' =
           IF ~ok \/ U = {} THEN OwnFail(own, 404, "Exam not found.")
           ELSE IF ~IsOwner(upload.user_email, own.userEmail)
             THEN OwnFail(own, 403,
                          IF own.kind = "delete"
                            THEN "You can only delete your own exams."
                            ELSE "You can only publish your own exams.")
           ELSE [own EXCEPT !.pc = IF own.kind = "delete" THEN "attempts"
                                   ELSE "publish",
                            !.storagePath = upload.storage_path]
  /\ UNCHANGED <<calc, apiKey, store, ans, comp, ext, started, log, page, sta>>

\* lines 136-140
DeleteSelectAttempts ==
  /\ own.pc = "attempts"
  /\ own' = [own EXCEPT
               !.pc = "answers",
               !.attemptIds =
                  {a.id : a \in {x \in attempts : x.upload_id = own.uploadId}}]
  /\ UNCHANGED <<calc, apiKey, store, ans, comp, ext, started, log, page, sta>>

\* lines 143-145
DeleteAnswers ==
  /\ own.pc = "answers"
  /\ attempt_answers' =
       {r \in attempt_answers : r.attempt_id \notin own.attemptIds}
  /\ own' = [own EXCEPT !.pc = "attemptRows"]
  /\ UNCHANGED <<calc, apiKey, pdf_uploads, questions, attempts, storage, idSeq, ans,
                 comp, ext, started, log, page, sta>>

\* line 148
DeleteAttempts ==
  /\ own.pc = "attemptRows"
  /\ attempts' = {a \in attempts : a.upload_id # own.uploadId}
  /\ own' = [own EXCEPT !.pc = "questions"]
  /\ UNCHANGED <<calc, apiKey, pdf_uploads, questions, attempt_answers, storage,
                 idSeq, ans, comp, ext, started, log, page, sta>>

\* line 151
DeleteQuestions ==
  /\ own.pc = "questions"
  /\ questions' = {q \in questions : q.upload_id # own.uploadId}
  /\ own' = [own EXCEPT !.pc = "object"]
  /\ UNCHANGED <<calc, apiKey, pdf_uploads, attempts, attempt_answers, storage,
                 idSeq, ans, comp, ext, started, log, page, sta>>

\* lines 154-161: the stored PDF is removed; a removal that throws is
\* passed over
DeleteObject(removed) ==
  /\ own.pc = "object"
  /\ storage' = IF removed /\ own.storagePath.ext = ".pdf"
                  THEN storage \ {own.storagePath}
                  ELSE storage
  /\ own' = [own EXCEPT !.pc = "upload"]
  /\ UNCHANGED <<calc, apiKey, pdf_uploads, questions, attempts, attempt_answers,
                 idSeq, ans, comp, ext, started, log, page, sta>>

\* lines 164-177
DeleteUpload(ok) ==
  /\ own.pc = "upload"
  /\ pdf_uploads' = IF ok THEN {u \in pdf_uploads : u.id # own.uploadId}
                    ELSE pdf_uploads
  /\ own' = IF ok THEN OwnOk(own)
            ELSE OwnFail(own, 500, "Failed to delete exam. Please try again.")
  /\ UNCHANGED <<calc, apiKey, questions, attempts, attempt_answers, storage, idSeq,
                 ans, comp, ext, started, log, page, sta>>

\* lines 246-259
PublishUpdate(ok) ==
  /\ own.pc = "publish"
  /\ pdf_uploads' =
       IF ok THEN {IF u.id = own.uploadId
                     THEN [u EXCEPT !.is_published = own.isPublished]
                     ELSE u : u \in pdf_uploads}
       ELSE pdf_uploads
  /\ own' = IF ok THEN OwnOk(own)
            ELSE OwnFail(own, 500,
                         "Failed to update publish status. Please try again.")
  /\ UNCHANGED <<calc, apiKey, questions, attempts, attempt_answers, storage, idSeq,
                 ans, comp, ext, started, log, page, sta>>

\* src/unnamed/part_003 lines 9-14: the body's email, with no session asked
CleanBegin(email) ==
  /\ own.pc \in {"idle", "done"}
  /\ own.n < MaxOwnerRequests
  /\ LET r == [OwnIdle EXCEPT !.kind = "clean", !.n = own.n + 1]
     IN  own' = IF email = Nil \/ NormalizeEmail(email) = <<>>
                  THEN OwnFail(r, 400, "Email is required.")
                  ELSE [r EXCEPT !.pc = "cleanAttempts",
                                 !.userEmail = NormalizeEmail(email)]
  /\ log' = [log EXCEPT !.before = store]
  /\ UNCHANGED <<calc, apiKey, store, ans, comp, ext, started, page, sta>>

\* src/unnamed/part_003 line 18
CleanAttempts ==
  /\ own.pc = "cleanAttempts"
  /\ attempts' = {a \in attempts : a.user_email # own.userEmail}
  /\ own' = [own EXCEPT !.pc = "cleanUploads"]
  /\ UNCHANGED <<calc, apiKey, pdf_uploads, questions, attempt_answers, storage,
                 idSeq, ans, comp, ext, started, log, page, sta>>

\* src/unnamed/part_003 lines 19-36: the Upload rows of the email, then the
\* user's own rows, whose delete may fail
CleanUploads(ok) ==
  /\ own.pc = "cleanUploads"
  /\ pdf_uploads' = {u \in pdf_uploads : u.user_email # own.userEmail}
  /\ own' = IF ok THEN OwnOk(own)
            ELSE OwnFail(own, 500, "Could not remove user. ")
  /\ UNCHANGED <<calc, apiKey, questions, attempts, attempt_answers, storage, idSeq,
                 ans, comp, ext, started, log, page, sta>>

(***************************************************************************)
(* POST /api/exam/start (src/app/api/exam/start/route.ts).                 *)
(***************************************************************************)
MaxStartRequests == 2

StaIdle ==
  [pc |-> "idle", n |-> 0, uploadId |-> Nil, userEmail |-> Nil,
   totalQuestions |-> 0, attemptId |-> Nil, status |-> 0, error |-> ""]

StaFail(r, status, error) ==
  [r EXCEPT !.pc = "done", !.status = status, !.error = error]

\* lines 6-15
StartBegin(uploadId, userEmail) ==
  /\ sta.pc \in {"idle", "done"}
  /\ sta.n < MaxStartRequests
  /\ LET r == [StaIdle EXCEPT !.n = sta.n + 1, !.uploadId = uploadId,
                              !.userEmail = userEmail]
     IN  sta' = IF \/ uploadId = Nil
                   \/ userEmail = Nil
                   \/ Trim(userEmail) = <<>>
                  THEN StaFail(r, 400, "uploadId and userEmail are required.")
                  ELSE [r EXCEPT !.pc = "questions"]
  /\ UNCHANGED <<calc, apiKey, store, ans, comp, ext, started, log, page, own>>

\* lines 19-31
StartSelectQuestions ==
  /\ sta.pc = "questions"
  /\ LET totalQuestions == Cardinality(QuestionsOf(sta.uploadId))
     IN  sta' = IF totalQuestions = 0
                  THEN StaFail(sta, 400, "No questions found for this exam.")
                  ELSE [sta EXCEPT !.pc = "insert",
                                   !.totalQuestions = totalQuestions]
  /\ UNCHANGED <<calc, apiKey, store, ans, comp, ext, started, log, page, own>>

\* lines 33-51: the Attempt row's insert; the store stamps started_at
StartInsert(ok, now) ==
  /\ sta.pc = "insert"
  /\ IF ok
       THEN /\ attempts' =
                 attempts \cup
                 {[AttemptRow(AttemptId(idSeq.attempts), sta.uploadId, now)
                     EXCEPT !.user_email = Trim(sta.userEmail)]}
            /\ idSeq' = [idSeq EXCEPT !.attempts = @ + 1]
            /\ sta' = [sta EXCEPT !.pc = "done", !.status = 200,
                                  !.attemptId = AttemptId(idSeq.attempts)]
       ELSE /\ UNCHANGED <<attempts, idSeq>>
            /\ sta' = StaFail(sta, 500, "Failed to start exam.")
  /\ UNCHANGED <<calc, apiKey, pdf_uploads, questions, attempt_answers, storage,
                 ans, comp, ext, started, log, page, own>>

(***************************************************************************)
(* Initial states and specifications of the exam routes.                   *)
(***************************************************************************)
\* the rows of the exam's questions, by their known answers
ExamQuestions(key) ==
  {QuestionRow(ExamUpload, k, key[k]) : k \in 1..Len(key)}
  \cup {QuestionRow(OtherUpload, 1, "A")}

\* an exam of n questions after extraction and exam start: every question
\* has a known answer or none, and nothing is answered yet
InitExam(Keys, Answers) ==
  /\ apiKey \in Keys
  /\ pdf_uploads =
       {UploadRow(ExamUpload, <<"o", "@", "x">>, StorageKey(ExamUpload)),
        UploadRow(OtherUpload, <<"p", "@", "x">>, PendingPath(ExamPdf))}
  /\ \E key \in Answers : questions = ExamQuestions(key)
  /\ attempts = {AttemptRow(ExamAttempt, ExamUpload, 1000)}
  /\ attempt_answers = {}
  /\ storage = {StorageKey(ExamUpload)}
  /\ idSeq = [uploads |-> 3, attempts |-> 3, answers |-> 1]
  /\ ans = [p \in AnsProcs |-> AnsIdle]
  /\ comp = [p \in CompProcs |-> CompIdle]
  /\ ext = ExtIdle
  /\ started = [answer |-> 0, complete |-> 0, extract |-> 0]
  /\ log = [finalize |-> <<>>, solve |-> <<>>, extract |-> <<>>,
            before |-> store]
  /\ page = PageIdle
  /\ own = OwnIdle
  /\ sta = StaIdle
  /\ calc = CalcIdle

\* one question without a known answer
Init == InitExam({TRUE}, {<<NULL>>})

AnswerStep(p) ==
  \/ \E u \in {<<"A">>, <<"b", " ">>} :
       AnswerBegin(p, ExamAttempt, QuestionId(ExamUpload, 1), u, FALSE)
  \/ AnswerSelectExisting(p)
  \/ AnswerWrite(p, TRUE)

SolveGood(n) == {[threw |-> FALSE, text |-> t] : t \in {SolveTexts(n)[1]}}

CompleteStep(p) ==
  \/ CompleteBegin(p, ExamAttempt)
  \/ CompleteSelectQuestions(p)
  \/ /\ comp[p].pc = "solve"
     /\ \E outcome \in SolveGood(Len(Batch(comp[p]))) :
          CompleteSolveBatch(p, outcome)
  \/ CompleteSelectAnswers(p)
  \/ CompleteUpdateAnswer(p)
  \/ CompleteInsertAnswer(p)
  \/ CompleteSelectFinal(p)
  \/ \E t \in {3999} : CompleteFinalize(p, t)
  \/ CompleteRespond(p)

Next ==
  \/ \E p \in AnsProcs : AnswerStep(p)
  \/ \E p \in CompProcs : CompleteStep(p)

\* any interleaving of the requests in flight
Spec == Init /\ [][Next]_vars

(***************************************************************************)
(* Requests that do not overlap in time: a request begins when no other    *)
(* is in flight.                                                           *)
(***************************************************************************)
Quiet ==
  /\ \A p \in AnsProcs : ans[p].pc \in {"idle", "done"}
  /\ \A p \in CompProcs : comp[p].pc \in {"idle", "done"}

InitSeq == InitExam(BOOLEAN, {<<"A", NULL>>, <<NULL, NULL>>})

AnswerStepSeq(p) ==
  \/ /\ Quiet
     /\ \E a \in AttemptInputs, q \in QuestionInputs, u \in AnswerInputs,
           f \in BOOLEAN : AnswerBegin(p, a, q, u, f)
  \/ AnswerSelectExisting(p)
  \/ \E ok \in BOOLEAN : AnswerWrite(p, ok)

CompleteStepSeq(p) ==
  \/ /\ Quiet
     /\ \E a \in CompleteInputs : CompleteBegin(p, a)
  \/ CompleteSelectQuestions(p)
  \/ /\ comp[p].pc = "solve"
     /\ \E outcome \in SolveOutcomes(Len(Batch(comp[p]))) :
          CompleteSolveBatch(p, outcome)
  \/ CompleteSelectAnswers(p)
  \/ CompleteUpdateAnswer(p)
  \/ CompleteInsertAnswer(p)
  \/ CompleteSelectFinal(p)
  \/ \E t \in Times : CompleteFinalize(p, t)
  \/ CompleteRespond(p)

NextSeq == AnswerStepSeq("a1") \/ CompleteStepSeq("c1")

SpecSeq == InitSeq /\ [][NextSeq]_vars

(***************************************************************************)
(* Answer resolution over two batches: an exam of NumResolveQuestions      *)
(* questions, requests one after another, a model that may throw.          *)
(***************************************************************************)
ResolveKeys ==
  {[k \in 1..NumResolveQuestions |-> NULL],
   [k \in 1..NumResolveQuestions |-> IF k = 3 THEN "C" ELSE NULL]}

InitResolve == InitExam({TRUE}, ResolveKeys)

AnswerStepResolve(p) ==
  \/ /\ Quiet
     /\ \E n \in {1, NumResolveQuestions - 1}, u \in {Nil, <<"A">>} :
          AnswerBegin(p, ExamAttempt, QuestionId(ExamUpload, n), u, FALSE)
  \/ AnswerSelectExisting(p)
  \/ AnswerWrite(p, TRUE)

CompleteStepResolve(p) ==
  \/ Quiet /\ CompleteBegin(p, ExamAttempt)
  \/ CompleteSelectQuestions(p)
  \/ /\ comp[p].pc = "solve"
     /\ \E outcome \in SolveOutcomes(Len(Batch(comp[p]))) :
          CompleteSolveBatch(p, outcome)
  \/ CompleteSelectAnswers(p)
  \/ CompleteUpdateAnswer(p)
  \/ CompleteInsertAnswer(p)
  \/ CompleteSelectFinal(p)
  \/ \E t \in {3999} : CompleteFinalize(p, t)
  \/ CompleteRespond(p)

NextResolve == AnswerStepResolve("a1") \/ CompleteStepResolve("c1")

SpecResolve == InitResolve /\ [][NextResolve]_vars

(***************************************************************************)
(* Aggregates: an exam whose questions all have a known answer, after the  *)
(* student answered some of them rightly and some wrongly, then completed. *)
(***************************************************************************)
AggregateTotals == {1, 3, 8, MaxQuestions}

\* the row an answer submission left for question n of the exam
SubmittedRow(n, letter) ==
  [id |-> n, attempt_id |-> ExamAttempt,
   question_id |-> QuestionId(ExamUpload, n), user_answer |-> letter,
   is_flagged |-> FALSE, ai_answer |-> NULL, is_correct |-> letter = "A"]

InitAggregate ==
  /\ apiKey = TRUE
  /\ pdf_uploads =
       {UploadRow(ExamUpload, <<"o", "@", "x">>, StorageKey(ExamUpload)),
        UploadRow(OtherUpload, <<"p", "@", "x">>, PendingPath(ExamPdf))}
  /\ attempts = {AttemptRow(ExamAttempt, ExamUpload, 1000)}
  /\ storage = {StorageKey(ExamUpload)}
  /\ \E total \in AggregateTotals, right \in 0..MaxQuestions, wrong \in 0..1 :
       /\ right + wrong <= total
       /\ questions = ExamQuestions([k \in 1..total |-> "A"])
       /\ attempt_answers =
            {SubmittedRow(n, IF n <= right THEN "A" ELSE "B") :
               n \in 1..(right + wrong)}
       /\ idSeq = [uploads |-> 3, attempts |-> 3, answers |-> right + wrong + 1]
  /\ ans = [p \in AnsProcs |-> AnsIdle]
  /\ comp = [p \in CompProcs |-> CompIdle]
  /\ ext = ExtIdle
  /\ started = [answer |-> 0, complete |-> 0, extract |-> 0]
  /\ log = [finalize |-> <<>>, solve |-> <<>>, extract |-> <<>>,
            before |-> store]
  /\ page = PageIdle
  /\ own = OwnIdle
  /\ sta = StaIdle
  /\ calc = CalcIdle

NextAggregate ==
  \/ Quiet /\ CompleteBegin("c1", ExamAttempt)
  \/ CompleteSelectQuestions("c1")
  \/ CompleteSelectAnswers("c1")
  \/ CompleteUpdateAnswer("c1")
  \/ CompleteInsertAnswer("c1")
  \/ CompleteSelectFinal("c1")
  \/ \E t \in Times : CompleteFinalize("c1", t)
  \/ CompleteRespond("c1")

SpecAggregate == InitAggregate /\ [][NextAggregate]_vars

(***************************************************************************)
(* The extraction pipeline: requests of one client, one after another,      *)
(* against a model and a store that may fail.                               *)
(***************************************************************************)
Files ==
  {[name |-> ExamPdf, type |-> "application/pdf", size |-> size] :
     size \in {1024, MAX_FILE_BYTES, MAX_FILE_BYTES + 1}}
  \cup {[name |-> ExamPdf, type |-> "text/plain", size |-> 1024]}

Subjects == {Nil, <<>>, <<"A", "P">>, AP_CSA, <<" ">> \o AP_STATISTICS}

QuestionCounts ==
  {Nil, <<>>, <<"0">>, <<"-", "1">>, <<"x">>, <<"1">>, <<" ", "2">>,
   <<"2", ".", "5">>}

Emails == {Nil, <<" ">>, <<"o", "@", "x">>}

\* the forms with a file part, and those without
Forms ==
  {[hasFile |-> TRUE, file |-> file, subject |-> subject,
    questionCount |-> questionCount, userEmail |-> userEmail] :
     file \in Files, subject \in Subjects,
     questionCount \in QuestionCounts, userEmail \in Emails}
  \cup
  {[NoForm EXCEPT !.subject = subject, !.questionCount = questionCount,
                  !.userEmail = userEmail] :
     subject \in Subjects, questionCount \in QuestionCounts,
     userEmail \in Emails}

ExtractedItems ==
  {<<>>,
   <<[correct |-> <<"a">>]>>,
   <<[correct |-> Nil], [correct |-> <<"B", " ">>]>>,
   <<[correct |-> <<"F">>], [correct |-> <<"C">>], [correct |-> <<"D">>]>>}

ResponseTexts ==
  {[fenced |-> fenced, json |-> json, items |-> <<>>] :
     fenced \in BOOLEAN, json \in {"blank", "malformed", "object"}}
  \cup
  {[fenced |-> fenced, json |-> "array", items |-> items] :
     fenced \in BOOLEAN, items \in ExtractedItems}

GenerateOutcomes ==
  {[threw |-> TRUE, message |-> "fetch failed", text |-> t] :
     t \in {[fenced |-> FALSE, json |-> "blank", items |-> <<>>]}}
  \cup {[threw |-> FALSE, message |-> "", text |-> t] : t \in ResponseTexts}

InitExtract == InitExam(BOOLEAN, {<<NULL>>})

NextExtract ==
  \/ \E form \in Forms : ExtractBegin(form)
  \/ \E outcome \in GenerateOutcomes : ExtractGenerate(outcome)
  \/ \E ok \in BOOLEAN : ExtractInsertUpload(ok)
  \/ \E result \in {"ok", "error", "throw"} : ExtractArchive(result)
  \/ ExtractSetStoragePath
  \/ \E ok \in BOOLEAN : ExtractInsertQuestions(ok)
  \/ ExtractRollback

SpecExtract == InitExtract /\ [][NextExtract]_vars


(***************************************************************************)
(* Letters from the three writers: extractions first, then answer          *)
(* submissions and completions of the exam, one request after another.     *)
(***************************************************************************)
LettersForm ==
  [hasFile |-> TRUE,
   file |-> [name |-> ExamPdf, type |-> "application/pdf", size |-> 1024],
   subject |-> AP_CSA, questionCount |-> <<" ", "2">>,
   userEmail |-> <<"o", "@", "x">>]

InitLetters == InitExam({TRUE}, {<<NULL, NULL>>})

ExtractQuiet == ext.pc \in {"idle", "done"}

NextLetters ==
  \/ /\ Quiet /\ ExtractQuiet
     /\ \E u \in AnswerInputs :
          AnswerBegin("a1", ExamAttempt, QuestionId(ExamUpload, 1), u, FALSE)
  \/ AnswerSelectExisting("a1")
  \/ AnswerWrite("a1", TRUE)
  \/ Quiet /\ ExtractQuiet /\ CompleteBegin("c1", ExamAttempt)
  \/ CompleteSelectQuestions("c1")
  \/ /\ comp["c1"].pc = "solve"
     /\ \E outcome \in SolveOutcomes(Len(Batch(comp["c1"]))) :
          CompleteSolveBatch("c1", outcome)
  \/ CompleteSelectAnswers("c1")
  \/ CompleteUpdateAnswer("c1")
  \/ CompleteInsertAnswer("c1")
  \/ CompleteSelectFinal("c1")
  \/ CompleteFinalize("c1", 3999)
  \/ CompleteRespond("c1")
  \/ /\ Quiet /\ started.answer = 0 /\ started.complete = 0
     /\ ExtractBegin(LettersForm)
  \/ \E items \in ExtractedItems :
       ExtractGenerate([threw |-> FALSE, message |-> "",
                        text |-> [fenced |-> FALSE, json |-> "array",
                                  items |-> items]])
  \/ ExtractInsertUpload(TRUE)
  \/ ExtractArchive("ok")
  \/ ExtractSetStoragePath
  \/ ExtractInsertQuestions(TRUE)

SpecLetters == InitLetters /\ [][NextLetters]_vars

(***************************************************************************)
(* The owner deletes the exam while an exam start and an answer            *)
(* submission for it are under way.                                        *)
(***************************************************************************)
InitDelete == InitExam({TRUE}, {<<"A">>})

NextDelete ==
  \/ OwnBegin("delete", ExamUpload, Bearer \o OwnerToken, FALSE)
  \/ \E ok \in BOOLEAN : OwnFetch(ok)
  \/ DeleteSelectAttempts
  \/ DeleteAnswers
  \/ DeleteAttempts
  \/ DeleteQuestions
  \/ \E removed \in BOOLEAN : DeleteObject(removed)
  \/ \E ok \in BOOLEAN : DeleteUpload(ok)
  \/ StartBegin(ExamUpload, <<"p", "@", "x">>)
  \/ StartSelectQuestions
  \/ \E ok \in BOOLEAN : StartInsert(ok, 2000)
  \/ AnswerBegin("a1", ExamAttempt, QuestionId(ExamUpload, 1), <<"A">>, FALSE)
  \/ AnswerSelectExisting("a1")
  \/ \E ok \in BOOLEAN : AnswerWrite("a1", ok)

SpecDelete == InitDelete /\ [][NextDelete]_vars

(***************************************************************************)
(* Requests on Uploads, one after another: deletes and publish toggles     *)
(* with and without a session, and requests that clear an email.           *)
(***************************************************************************)
MissingUpload == UploadId(9)

UploadInputs == {Nil, ExamUpload, OtherUpload, MissingUpload}

AuthHeaders ==
  {Nil, Bearer, <<"B", "a", "s", "i", "c", " ">> \o OwnerToken,
   Bearer \o OwnerToken, Bearer \o OtherToken, Bearer \o StaleToken}

CleanInputs == {Nil, <<" ">>, <<"O", "@", "x", " ">>}

InitOwner == InitExam({TRUE}, {<<"A">>})

NextOwner ==
  \/ \E kind \in {"delete", "publish"}, uploadId \in UploadInputs,
        authHeader \in AuthHeaders, isPublished \in BOOLEAN :
       OwnBegin(kind, uploadId, authHeader, isPublished)
  \/ \E ok \in BOOLEAN : OwnFetch(ok)
  \/ DeleteSelectAttempts
  \/ DeleteAnswers
  \/ DeleteAttempts
  \/ DeleteQuestions
  \/ \E removed \in BOOLEAN : DeleteObject(removed)
  \/ \E ok \in BOOLEAN : DeleteUpload(ok)
  \/ \E ok \in BOOLEAN : PublishUpdate(ok)
  \/ \E email \in CleanInputs : CleanBegin(email)
  \/ CleanAttempts
  \/ \E ok \in BOOLEAN : CleanUploads(ok)

SpecOwner == InitOwner /\ [][NextOwner]_vars

(***************************************************************************)
(* The passage panel: contents rendered one after another.                 *)
(***************************************************************************)
MaxTokens == 3

\* pieces of markup: tags, parts of tags and text
MarkupTokens ==
  {<<"<">>,
   <<"<", "b", ">">>,
   <<"<", "t", "r", ">">>,
   <<"<", "t", "d", " ", "a", ">">>,
   <<"<", "/", "t", "d", ">">>,
   <<"<", "s", "c", "r", "i", "p", "t", ">">>,
   <<"<", "/", "s", "c", "r", "i", "p", "t", ">">>,
   <<"x">>,
   <<"a", ">">>,
   <<"<", "T", "H", ">">>}

RECURSIVE TokenSeqs(_)
TokenSeqs(n) ==
  IF n = 0 THEN {<<>>}
  ELSE TokenSeqs(n - 1)
         \cup {Append(ts, t) : ts \in TokenSeqs(n - 1), t \in MarkupTokens}

\* tables of markup: the pieces between an opening and a closing table tag
MarkupContents ==
  {open \o Concat(ts) \o <<"<", "/", "t", "a", "b", "l", "e", ">">> :
     open \in {<<"<", "t", "a", "b", "l", "e", ">">>, <<"<", "t", "a", "b", "l", "e", " ", "a", ">">>},
     ts \in TokenSeqs(MaxTokens)}

TextCells == {<<"a">>, <<"<", "b", ">">>, <<"&">>}

TextSeparators == {<<"|">>, <<"\t">>, <<" ", " ">>, <<" ">>}

\* a line of a plain-text table; framed puts the separator at both ends too
TextLine(cells, sep, framed) ==
  (IF framed THEN sep ELSE <<>>)
    \o Concat([k \in 1..Len(cells) |->
                 IF k < Len(cells) \/ framed THEN cells[k] \o sep
                 ELSE cells[k]])

\* plain-text tables of two rows and two columns; ruled puts a line of
\* dashes under the first row
TextContents ==
  {TextLine(rows[1], sep, framed) \o <<"\n">>
     \o (IF ruled THEN TextLine(<<<<"-">>, <<"-">>>>, sep, framed) \o <<"\n">>
         ELSE <<>>)
     \o TextLine(rows[2], sep, framed) :
     rows \in [1..2 -> [1..2 -> TextCells]],
     sep \in TextSeparators, framed \in BOOLEAN, ruled \in BOOLEAN}

PanelContents == MarkupContents \cup TextContents

InitRender == InitExam({TRUE}, {<<NULL>>})

NextRender ==
  \/ \E content \in PanelContents : LoadPanel(content)
  \/ RenderPanel

SpecRender == InitRender /\ [][NextRender]_vars

(***************************************************************************)
(* Properties.                                                             *)
(***************************************************************************)
TheAttempt == CHOOSE a \in attempts : a.id = ExamAttempt

\* C1: a completion request for an Attempt whose completion timestamp is
\* set is answered at once with 400 "Exam already completed."; it calls no
\* model and leaves the Attempt rows and the AttemptAnswer rows as they were.
CompletedAttemptRejected ==
  [][\A p \in CompProcs : \A attemptId \in CompleteInputs :
       (/\ CompleteBegin(p, attemptId)
        /\ \E a \in attempts : a.id = attemptId /\ a.completed_at # NullNum)
       => /\ comp'[p].pc = "done"
          /\ comp'[p].status = 400
          /\ comp'[p].error = "Exam already completed."
          /\ attempts' = attempts
          /\ attempt_answers' = attempt_answers
          /\ log' = log]_vars

\* a second completion request has been rejected after the first finalized
CompletedAttemptRejectedSeen ==
  /\ comp["c1"].pc = "done"
  /\ comp["c1"].error = "Exam already completed."
  /\ TheAttempt.completed_at # NullNum
  /\ attempt_answers # {}

\* C2: however completion requests for one Attempt interleave, the finalize
\* write is performed at most once for that Attempt.
FinalizeOnce ==
  Len(SelectSeq(log.finalize, LAMBDA a : a = ExamAttempt)) <= 1

\* the extraction model answered with JSON that holds no question: an empty
\* array, or a value that is not an array
EmptyResult(text) ==
  text.json = "object" \/ (text.json = "array" /\ text.items = <<>>)

\* C3: an extraction request whose model response holds no question ends in
\* failure, and the Upload row it inserted does not survive.
EmptyResultRejected ==
  (ext.pc = "done" /\ ext.called /\ EmptyResult(ext.text))
  => /\ ext.status # 200
     /\ \A u \in pdf_uploads : u.id # ext.uploadId

FailsValidation(form) ==
  \/ ~form.hasFile
  \/ form.file.type # "application/pdf"
  \/ form.file.size > 50 * 1024 * 1024
  \/ form.subject = Nil
  \/ Trim(form.subject) \notin
       {AP_CSA, AP_MICROECONOMICS, AP_MACROECONOMICS, AP_PSYCHOLOGY,
        AP_STATISTICS}
  \/ form.questionCount = Nil
  \/ ParseInt(form.questionCount).nan
  \/ ParseInt(form.questionCount).value < 1
  \/ form.userEmail = Nil
  \/ Trim(form.userEmail) = <<>>

UniquePair ==
  \A x, y \in attempt_answers :
    (x.attempt_id = y.attempt_id /\ x.question_id = y.question_id) => x = y


\* the letter a batch's response gives its j-th question: none when the call
\* threw, else the j-th parsed letter when it is valid
Resolved(e, j) ==
  IF e.threw THEN NULL
  ELSE LET answers == parseSolveResponse(e.text, Len(e.batch))
       IN  IF j <= Len(answers) /\ answers[j] \in VALID_ANSWERS
             THEN answers[j] ELSE NULL

\* C9: a batch whose model call throws leaves its questions without AI
\* answer, every batch is still sent and the others are resolved from their
\* responses, and the request goes on to merge and finalize the Attempt.
ThrownBatchLeftUnresolved ==
  LET r == comp["c1"]
      n == Len(r.questionsNeedingAi)
      looped == r.pc \in {"answers", "update", "insert", "final",
                          "finalize", "respond"}
      merged == r.pc \in {"final", "finalize", "respond", "done"}
  IN  /\ looped =>
           /\ Len(log.solve) * BATCH_SIZE >= n
           /\ \A k \in 1..Len(log.solve) :
                /\ log.solve[k].first = (k - 1) * BATCH_SIZE + 1
                /\ log.solve[k].batch =
                     SubSeq(r.questionsNeedingAi, log.solve[k].first,
                            Min(k * BATCH_SIZE, n))
                /\ \A j \in 1..Len(log.solve[k].batch) :
                     MapGet(r.aiAnswerMap, log.solve[k].batch[j].id)
                       = Resolved(log.solve[k], j)
      /\ merged =>
           \A k \in 1..Len(log.solve) :
             \A j \in 1..Len(log.solve[k].batch) :
               LET rows == AnswersOfPair(ExamAttempt, log.solve[k].batch[j].id)
               IN  /\ Cardinality(rows) = 1
                   /\ \A x \in rows : x.ai_answer = Resolved(log.solve[k], j)
      /\ r.pc = "done" =>
           /\ TheAttempt.completed_at # NullNum
           /\ log.finalize = <<ExamAttempt>>

\* ten unknown questions, the first call threw and the second answered
\* ["A","B"]: questions 1-8 have no AI answer, 9 and 10 have A and B, and the
\* Attempt is finalized
ThrownBatchSeen ==
  /\ comp["c1"].pc = "done"
  /\ comp["c1"].status = 200
  /\ Len(log.solve) = 2
  /\ Len(log.solve[1].batch) = BATCH_SIZE
  /\ log.solve[1].threw
  /\ ~log.solve[2].threw
  /\ \A k \in 1..BATCH_SIZE :
       \E x \in AnswersOfPair(ExamAttempt, QuestionId(ExamUpload, k)) :
         x.ai_answer = NULL /\ ~x.is_correct
  /\ \E x \in AnswersOfPair(ExamAttempt, QuestionId(ExamUpload, BATCH_SIZE + 1)) :
       x.ai_answer = "A" /\ x.user_answer = "A" /\ x.is_correct
  /\ \E x \in AnswersOfPair(ExamAttempt, QuestionId(ExamUpload, BATCH_SIZE + 2)) :
       x.ai_answer = "B"
  /\ TheAttempt.completed_at # NullNum

\* the answer the merge holds a row's letter against: the known answer of
\* the Upload's Question, else the letter resolved for it, else none
Expected(r, questionId) ==
  LET Q == {q \in questions : q.id = questionId /\ q.upload_id = r.upload_id}
  IN  IF Q = {} THEN NULL
      ELSE LET q == CHOOSE x \in Q : TRUE
           IN  IF q.correct_answer # NULL THEN q.correct_answer
               ELSE MapGet(r.aiAnswerMap, questionId)

Completed == comp["c1"].pc = "done" /\ comp["c1"].status = 200

\* C11 (counts, elapsed seconds): the counts the completion stores and
\* reports are the recount of the Attempt's rows by null letter and by
\* correctness, and the elapsed seconds are the whole seconds from start to
\* completion, never negative.
AggregatesCounted ==
  Completed =>
    LET rows == AnswersOf(ExamAttempt)
        body == comp["c1"].body
        a == TheAttempt
    IN  /\ a.unanswered_count = Cardinality({x \in rows : x.user_answer = NULL})
        /\ a.correct_count =
             Cardinality({x \in rows : x.user_answer # NULL /\ x.is_correct})
        /\ a.incorrect_count =
             Cardinality({x \in rows : x.user_answer # NULL /\ ~x.is_correct})
        /\ body.correctCount = a.correct_count
        /\ body.incorrectCount = a.incorrect_count
        /\ body.unansweredCount = a.unanswered_count
        /\ body.total = Cardinality(QuestionsOf(ExamUpload))
        /\ a.time_spent_seconds >= 0
        /\ body.timeSpentSeconds = a.time_spent_seconds
        /\ \/ a.completed_at >= a.started_at
              /\ a.time_spent_seconds * 1000 <= a.completed_at - a.started_at
              /\ a.completed_at - a.started_at < (a.time_spent_seconds + 1) * 1000
           \/ a.completed_at < a.started_at /\ a.time_spent_seconds = 0

\* C11 (percentage): the percentage reported is correct / total x 100
\* rounded to the nearest integer, a half going up.
PercentageRounded ==
  Completed =>
    LET body == comp["c1"].body
    IN  /\ 2 * body.total * body.percentage
             <= 200 * body.correctCount + body.total
        /\ 200 * body.correctCount + body.total
             < 2 * body.total * (body.percentage + 1)

\* the Question rows of the Upload of the extraction request
ExtractedRows == {q \in questions : q.upload_id = ext.uploadId}

\* C12: a successful extraction whose model response is an array of m items,
\* with k questions requested, adds exactly one Upload row and exactly
\* min(m, k) Question rows: one for each ordinal of 1..min(m, k), the row of
\* ordinal i carrying the answer of the i-th item; the items after the k-th
\* leave no row and the request still succeeds.
ExtractionKeepsPrefix ==
  (ext.pc = "done" /\ ext.status = 200 /\ ext.text.json = "array")
  => LET n == Min(Len(ext.text.items), ext.questionCount)
     IN  /\ log.before[1] \subseteq pdf_uploads
         /\ Cardinality(pdf_uploads \ log.before[1]) = 1
         /\ \A u \in pdf_uploads \ log.before[1] : u.id = ext.uploadId
         /\ questions \ log.before[2] = ExtractedRows
         /\ Cardinality(ExtractedRows) = n
         /\ \A i \in 1..n :
              \E q \in ExtractedRows :
                /\ q.question_number = i
                /\ q.correct_answer =
                     normalizeCorrect(ext.text.items[i].correct)

\* three items were returned for two questions requested, and two rows stored
ExtractionKeepsPrefixSeen ==
  /\ ext.pc = "done"
  /\ ext.status = 200
  /\ Len(ext.text.items) = 3
  /\ ext.questionCount = 2
  /\ Cardinality(ExtractedRows) = 2

\* the allowed tags of a text from pos on, without their attributes, in the
\* order in which they stand
RECURSIVE AllowedTagsFrom(_, _)
AllowedTagsFrom(s, pos) ==
  LET M == {i \in pos..Len(s) : AllowedEnd(s, i) # 0}
  IN  IF M = {} THEN <<>>
      ELSE <<BareTag(s, Least(M))>>
             \o AllowedTagsFrom(s, AllowedEnd(s, Least(M)) + 1)

\* the panel shows the result of sanitizeTableHtml
Rendered == page.kind \in {"markup", "text"}

\* C13: sanitizeTableHtml keeps every table, thead, tbody, tr, th and td tag
\* of its input, opening and closing, in the original order and without
\* attributes: the allowed tags of the output are those of the input outside
\* its script blocks.
AllowedTagsKept ==
  page.kind = "markup"
  => AllowedTagsFrom(page.html, 1)
       = AllowedTagsFrom(ReplaceAll("script", Trim(page.content), 1), 1)

\* the name of the tag an HTML parser reads at i ("<" or "</", a letter, and
\* the characters up to white space, "/" or ">"), in lower case; <<>> when
\* no tag begins at i
TagNameAt(s, i) ==
  LET n == NameStart(s, i)
      E == {e \in n..Len(s) : s[e] \in WhiteSpace \cup {"/", ">"}}
  IN  IF /\ s[i] = "<"
         /\ n <= Len(s)
         /\ s[n] \in Letters
         /\ FirstIndex(s, ">", n) # 0
        THEN ToLowerCase(SubSeq(s, n, Least(E) - 1))
        ELSE <<>>

\* C14: whatever the input, nested or split tags included, what
\* sanitizeTableHtml returns holds no script element and no tag other than
\* table, thead, tbody, tr, th and td.
OnlyAllowedTags ==
  Rendered
  => \A i \in 1..Len(page.html) :
       TagNameAt(page.html, i) \in Range(AllowedTags) \cup {<<>>}

\* C15: a plain-text table of two rows and two columns or more, put through
\* plainTextToTableHtml and then sanitizeTableHtml, reaches the panel as
\* table markup: a table whose header cells and body cells are the escaped
\* texts of the cells, in order, and nothing else.
TextTableRendered ==
  page.kind = "text"
  => /\ page.html = plainTextToTableHtml(page.content)
     /\ HasWordAt(page.html, 1, <<"<", "t", "a", "b", "l", "e", ">">>)

\* the messages the extraction route words itself
ExtractMessages ==
  {"GEMINI_API_KEY is not set. Add it to .env for PDF analysis.",
   "No PDF file provided.", "File must be a PDF.", "PDF must be under 50 MB.",
   "Invalid or missing subject.", "Question count must be a positive number.",
   "User email is required.",
   "Gemini returned no content. The PDF may be unreadable or empty.",
   "Failed to parse Gemini response as JSON. Try again or use a simpler PDF.",
   "Failed to save upload record.", "Failed to save questions.",
   "Analysis failed."}

\* C16: every error response of the extraction route carries one of the
\* route's own fixed messages; the message of an exception thrown by the
\* model's client never reaches the response body.
ErrorMessagesFixed ==
  (ext.pc = "done" /\ ext.status # 200) => ext.error \in ExtractMessages

\* a letter column holds A, B, C, D, E or null
ValidLetter(letter) == letter = NULL \/ letter \in VALID_ANSWERS

\* the letters of the store
LettersValid ==
  /\ \A q \in questions : ValidLetter(q.correct_answer)
  /\ \A r \in attempt_answers :
       ValidLetter(r.user_answer) /\ ValidLetter(r.ai_answer)

\* C17: every letter persisted is A, B, C, D, E or null (a Question's correct
\* answer written by extraction, an AttemptAnswer's selected letter written
\* by answer submission, its AI letter written by completion), and an answer
\* submission whose letter, in upper case and trimmed, is none of these is
\* answered 400 and leaves the store as it was.
LettersAlwaysValid ==
  /\ []LettersValid
  /\ [][\A u \in AnswerInputs :
          (/\ AnswerBegin("a1", ExamAttempt, QuestionId(ExamUpload, 1), u,
                          FALSE)
           /\ NormalizeAnswer(u) # Nil
           /\ NormalizeAnswer(u) \notin {<<l>> : l \in VALID_ANSWERS})
          => /\ ans'["a1"].pc = "done"
             /\ ans'["a1"].status = 400
             /\ store' = store]_vars

\* a submission was rejected for its letter with letters of all three
\* writers in the store
LettersAlwaysValidSeen ==
  /\ ans["a1"].error = "userAnswer must be A, B, C, D, or E."
  /\ \E q \in questions : q.upload_id \notin {ExamUpload, OtherUpload}
  /\ \E r \in attempt_answers : r.user_answer # NULL
  /\ \E r \in attempt_answers : r.ai_answer # NULL

\* the rows that hang on Upload u: its Questions, its Attempts and the
\* AttemptAnswers given to its Questions (those it had when the owner's
\* request began)
Dependents(u) ==
  {q \in questions : q.upload_id = u}
  \cup {a \in attempts : a.upload_id = u}
  \cup {r \in attempt_answers :
          \E q \in log.before[2] : q.upload_id = u /\ q.id = r.question_id}

\* C18: when a DELETE of an Upload by its owner returns ok, no Question,
\* Attempt or AttemptAnswer row of that Upload is left, also with an exam
\* start and an answer submission for the Upload under way.
DeleteLeavesNoDependents ==
  [][(own.pc = "upload" /\ own'.pc = "done" /\ own'.status = 200)
       => (pdf_uploads' = {u \in pdf_uploads : u.id # own.uploadId}
           /\ Dependents(own.uploadId)' = {})]_vars

\* the email of the session a request carries, trimmed and in lower case;
\* Nil when it carries no valid token
AuthenticEmail(r) ==
  IF getAuthUser(r.authHeader).error = ""
    THEN NormalizeEmail(getAuthUser(r.authHeader).email)
    ELSE Nil

\* C19: an Upload row is removed or has its published flag changed only by a
\* request whose session's email is the owner's (trimmed, letter case
\* ignored); a request on an Upload that carries no valid token or another
\* user's is answered 401 or 403 (404 when the Upload's select fails) and
\* leaves every row as it was.
OwnerOnly ==
  [][/\ \A u \in pdf_uploads \ pdf_uploads' :
          AuthenticEmail(own) = NormalizeEmail(u.user_email)
     /\ \A u \in log'.before[1] :
          (/\ own' # own
           /\ own'.pc = "done"
           /\ own'.uploadId = u.id
           /\ AuthenticEmail(own') # NormalizeEmail(u.user_email))
          => (own'.status \in {401, 403, 404} /\ store' = log'.before)]_vars

(***************************************************************************)
(* A completion of a two-question exam while answers to either question    *)
(* are being submitted: the requests interleave freely.                    *)
(***************************************************************************)
InitBackfill == InitExam({TRUE}, {<<"A", NULL>>})

AnswerStepBackfill(p) ==
  \/ \E n \in {1, 2} :
       AnswerBegin(p, ExamAttempt, QuestionId(ExamUpload, n), <<"A">>, FALSE)
  \/ AnswerSelectExisting(p)
  \/ AnswerWrite(p, TRUE)

NextBackfill == AnswerStepBackfill("a1") \/ CompleteStep("c1")

SpecBackfill == InitBackfill /\ [][NextBackfill]_vars

\* every Question of the Attempt's Upload has an AttemptAnswer row
EveryQuestionAnswered(a) ==
  \A q \in QuestionsOf(a.upload_id) : AnswersOfPair(a.id, q.id) # {}

ArchiveAfterRows ==
  [][(storage' # storage /\ ext.pc = "archive")
       => /\ \E u \in pdf_uploads : u.id = ext.uploadId
          /\ Range(QuestionRows(ext)) \subseteq questions]_vars

(***************************************************************************)
(* The batch loop of a completion: exams whose questions without a known   *)
(* answer number NumResolveQuestions, one or two fewer, one or none, with  *)
(* and without a resolution key.                                           *)
(***************************************************************************)
BatchKeys ==
  {[k \in 1..NumResolveQuestions |-> IF k \in known THEN "C" ELSE NULL] :
     known \in {{}, {3}, {3, 5}, 2..NumResolveQuestions,
                1..NumResolveQuestions}}

InitBatches == InitExam(BOOLEAN, BatchKeys)

SpecBatches == InitBatches /\ [][NextResolve]_vars

\* the Questions of the exam without a known answer, by ordinal
Unknown ==
  SelectSeq(OrderByNumber(QuestionsOf(ExamUpload)),
            LAMBDA q : q.correct_answer = NULL)

\* ceil(n / BATCH_SIZE)
BatchCount(n) == (n + BATCH_SIZE - 1) \div BATCH_SIZE

\* C22: with a key and n > 0 Questions without a known answer a completion
\* calls the model once per batch of BATCH_SIZE consecutive Questions in
\* ordinal order, the last batch possibly shorter, ceil(n / BATCH_SIZE)
\* calls in all, each call made when the one before has returned or thrown;
\* with no key or n = 0 it calls the model never, and it completes.
BatchesInSequence ==
  /\ [](LET r == comp["c1"]
            n == Len(Unknown)
            calls == Len(log.solve)
        IN  /\ \A k \in 1..calls :
                 /\ log.solve[k].first = (k - 1) * BATCH_SIZE + 1
                 /\ log.solve[k].batch =
                      SubSeq(Unknown, log.solve[k].first,
                             Min(k * BATCH_SIZE, n))
            /\ calls <= BatchCount(n)
            /\ r.pc = "solve" => (apiKey /\ n > 0 /\ calls * BATCH_SIZE = r.i)
            /\ (~apiKey \/ n = 0) => calls = 0
            /\ (r.pc = "done" /\ r.status = 200)
                 => /\ calls = (IF apiKey THEN BatchCount(n) ELSE 0)
                    /\ TheAttempt.completed_at # NullNum)
  /\ [][Len(log'.solve) <= Len(log.solve) + 1
        /\ (log'.solve # log.solve
              => /\ comp["c1"].pc = "solve"
                 /\ SubSeq(log'.solve, 1, Len(log.solve)) = log.solve)]_vars

\* a completion of an exam with one Question more than a batch holds has
\* called the model twice, the second time for that Question alone
BatchesInSequenceSeen ==
  /\ apiKey
  /\ Len(Unknown) = BATCH_SIZE + 1
  /\ comp["c1"].pc = "done"
  /\ comp["c1"].status = 200
  /\ Len(log.solve) = 2
  /\ Len(log.solve[2].batch) = 1

\* a completion without a resolution key has finished
CompletedWithoutKey ==
  /\ ~apiKey
  /\ Len(Unknown) > 0
  /\ comp["c1"].pc = "done"
  /\ comp["c1"].status = 200

(***************************************************************************)
(* The letters of a batch response: a completion of an exam of three       *)
(* Questions without a known answer, the model answering its one batch     *)
(* with a list of tokens written as a JSON array or without the brackets,  *)
(* or with prose.                                                          *)
(***************************************************************************)
ResponseTokens == {<<"A">>, <<"C">>, <<"F">>}

TokenLists ==
  UNION {[1..n -> ResponseTokens] : n \in 0..MaxResponseTokens}

\* the tokens in quotes, separated by commas, without the brackets
QuotedList(tokens) ==
  LET text == JsonArrayText(tokens)
  IN  SubSeq(text, 2, Len(text) - 1)

ProseTexts ==
  {<<"B", " ", "o", "r", " ", "A">>,
   <<"\"", "A", "\"", " ", "D", "o", "n", "e">>,
   <<"'", "C", "'", ",", "\"", "A", "\"">>}

AssignTexts ==
  {JsonArrayText(tokens) : tokens \in TokenLists}
  \cup {QuotedList(tokens) : tokens \in TokenLists}
  \cup ProseTexts

InitAssign == InitExam({TRUE}, {<<NULL, NULL, NULL>>})

NextAssign ==
  \/ Quiet /\ AnswerBegin("a1", ExamAttempt, QuestionId(ExamUpload, 1),
                          <<"A">>, FALSE)
  \/ AnswerSelectExisting("a1")
  \/ AnswerWrite("a1", TRUE)
  \/ Quiet /\ CompleteBegin("c1", ExamAttempt)
  \/ CompleteSelectQuestions("c1")
  \/ \E text \in AssignTexts :
       CompleteSolveBatch("c1", [threw |-> FALSE, text |-> text])
  \/ CompleteSelectAnswers("c1")
  \/ CompleteUpdateAnswer("c1")
  \/ CompleteInsertAnswer("c1")
  \/ CompleteSelectFinal("c1")
  \/ \E t \in {3999} : CompleteFinalize("c1", t)
  \/ CompleteRespond("c1")

SpecAssign == InitAssign /\ [][NextAssign]_vars

\* the letter of the token at position j: none when there is no such token
\* or it is not one of A-E
TokenLetter(tokens, j) ==
  IF j <= Len(tokens) /\ Len(tokens[j]) = 1 /\ tokens[j][1] \in VALID_ANSWERS
    THEN tokens[j][1] ELSE NULL

\* C23: the question at position j of a batch is given the letter of the
\* token at position j of the response when that token is one of A-E, and
\* no letter when the token is invalid or missing, whether the tokens came
\* as a JSON array or were found by the fallback scan.
AssignedByPosition ==
  \A k \in 1..Len(log.solve) :
    \A tokens \in TokenLists :
      (/\ comp["c1"].pc \in {"answers", "update", "insert", "final",
                              "finalize", "respond"}
       /\ log.solve[k].text \in {JsonArrayText(tokens), QuotedList(tokens)})
        => \A j \in 1..Len(log.solve[k].batch) :
             MapGet(comp["c1"].aiAnswerMap, log.solve[k].batch[j].id)
               = TokenLetter(tokens, j)

\* the single letters A-E of a text that stand between two quotes, in order
QuotedLetters(text) ==
  LET Quotes == {"\"", "'"}
      At(i) == /\ 1 < i /\ i < Len(text)
               /\ text[i] \in VALID_ANSWERS
               /\ text[i - 1] \in Quotes
               /\ text[i + 1] \in Quotes
      I == {i \in 1..Len(text) : At(i)}
      Nth(j) == CHOOSE i \in I : Cardinality({h \in I : h < i}) = j - 1
  IN  [j \in 1..Cardinality(I) |-> text[Nth(j)]]

\* the response is not answered by the JSON stage of the parse
FallsBack(text) ==
  LET jsonMatch == JsonMatch(Trim(text))
  IN  jsonMatch = <<>> \/ ~JsonParseArray(jsonMatch).ok

\* C24: from a response that is no JSON array the questions of the batch
\* are given, in order, the single letters A-E that stand in quotes; a
\* capital A-E outside quotes is given to no question.
FallbackTakesQuoted ==
  \A k \in 1..Len(log.solve) :
    (/\ comp["c1"].pc \in {"answers", "update", "insert", "final",
                            "finalize", "respond"}
     /\ FallsBack(log.solve[k].text))
      => \A j \in 1..Len(log.solve[k].batch) :
           MapGet(comp["c1"].aiAnswerMap, log.solve[k].batch[j].id)
             = AnswerAt(QuotedLetters(log.solve[k].text), j)

(***************************************************************************)
(* The table scenario: plain-text tables of a header line and two rows,    *)
(* written with single pipes, with outer pipes, without spaces, with a     *)
(* separator row, with two spaces or a tab, detected and converted to     *)
(* HTML.                                                                   *)
(***************************************************************************)
\* the header line of the scenario and its variants
HeaderLines ==
  {<<"P", "r", "i", "c", "e", " ", "|", " ", "Q", "u", "a", "n", "t", "i", "t", "y">>,
   <<"|", " ", "P", "r", "i", "c", "e", " ", "|", " ", "Q", "u", "a", "n", "t", "i", "t", "y", " ", "|">>,
   <<"P", "r", "i", "c", "e", "|", "Q", "u", "a", "n", "t", "i", "t", "y">>,
   <<"P", "r", "i", "c", "e", " ", " ", "Q", "u", "a", "n", "t", "i", "t", "y">>,
   <<"P", "r", "i", "c", "e", "\t", "Q", "u", "a", "n", "t", "i", "t", "y">>}

\* the first row
FirstRowLines ==
  {<<"1", "0", " ", "|", " ", "5">>,
   <<"|", " ", "1", "0", " ", "|", " ", "5", " ", "|">>,
   <<"1", "0", "|", "5">>,
   <<"-", "-", "-", " ", "|", " ", "-", "-", "-">>}

\* the second row
SecondRowLines ==
  {<<"2", "0", " ", "|", " ", "3">>,
   <<"|", " ", "2", "0", " ", "|", " ", "3", " ", "|">>,
   <<"2", "0", "|", "3">>,
   <<"2", "0", " ", "|", " ", "3", " ", "|", " ", "1">>}

ScenarioTexts ==
  {h \o <<"\n">> \o r1 \o <<"\n">> \o r2 :
     h \in HeaderLines, r1 \in FirstRowLines, r2 \in SecondRowLines}

\* "Price | Quantity\n10 | 5\n20 | 3"
PriceQuantity ==
  <<"P", "r", "i", "c", "e", " ", "|", " ", "Q", "u", "a", "n", "t", "i", "t", "y">>
    \o <<"\n">> \o <<"1", "0", " ", "|", " ", "5">> \o <<"\n">> \o <<"2", "0", " ", "|", " ", "3">>

\* line 711: plainTextToTableHtml(leftPanelContent), before it is sanitized
ConvertPanel ==
  /\ page.kind = "content"
  /\ looksLikeTableText(page.content)
  /\ page' = [page EXCEPT !.kind = "table",
                          !.html = plainTextToTableHtml(page.content)]
  /\ UNCHANGED <<calc, apiKey, store, ans, comp, ext, started, log, own, sta>>

InitTable == InitExam({TRUE}, {<<NULL>>})

NextTable == (\E content \in ScenarioTexts : LoadPanel(content)) \/ ConvertPanel

SpecTable == InitTable /\ [][NextTable]_vars

\* C25: for "Price | Quantity\n10 | 5\n20 | 3" the split mode is pipe, the
\* text is taken for a table, and the HTML has a header row of the two
\* cells Price and Quantity and two body rows of two cells each.
PriceTableByPipe ==
  page.content = PriceQuantity
    => /\ getTableSplitMode(Lines(page.content)) = "pipe"
       /\ looksLikeTableText(page.content)
       /\ page.kind = "table" =>
            page.html =
              Element(<<"t", "a", "b", "l", "e">>,
                Element(<<"t", "h", "e", "a", "d">>,
                  RowHtml(<<<<"P", "r", "i", "c", "e">>, <<"Q", "u", "a", "n", "t", "i", "t", "y">>>>, <<"t", "h">>))
                \o Element(<<"t", "b", "o", "d", "y">>,
                     RowHtml(<<<<"1", "0">>, <<"5">>>>, <<"t", "d">>)
                     \o RowHtml(<<<<"2", "0">>, <<"3">>>>, <<"t", "d">>)))

(***************************************************************************)
(* src/app/api/upload/analyze/route.ts, lines 57-92 and 233-260: the       *)
(* texts of a Question row from one item of the model's array.  An absent  *)
(* field is Nil.                                                           *)
(***************************************************************************)
NoQuestionText ==
  <<"N", "o", " ", "q", "u", "e", "s", "t", "i", "o", "n", " ", "t", "e",
    "x", "t", ".">>

DefaultStem ==
  <<"W", "h", "i", "c", "h", " ", "o", "f", " ", "t", "h", "e", " ", "f",
    "o", "l", "l", "o", "w", "i", "n", "g", " ", "i", "s", " ", "c", "o",
    "r", "r", "e", "c", "t", "?">>

\* line 90, its letters written without their diacritics
Placeholder ==
  <<"g", "e", "r", "i", "y", "e", " ", "d", "o", "n", "u", "k", " ", "u",
    "y", "u", "m", "l", "u", "l", "u", "k", " ", "i", "c", "i", "n">>

\* at p stands white space, then at least one character, and the text ends
\* with "?": \s+.+\? up to the end of the text
RestAsks(t, p) ==
  /\ p + 2 <= Len(t)
  /\ t[p] \in WhiteSpace
  /\ t[Len(t)] = "?"

\* line 65: one of the three alternatives of the pattern matches from g to
\* the end of the text (flags i and s)
QuestionAt(t, g) ==
  \/ HasWordAt(t, g, <<"w", "h", "i", "c", "h">>) /\ RestAsks(t, g + 5)
  \/ /\ HasWordAt(t, g, <<"w", "h", "a", "t">>)
     /\ SkipWs(t, g + 4) > g + 4
     /\ \E verb \in {<<"i", "s">>, <<"d", "o", "e", "s">>,
                     <<"w", "i", "l", "l">>, <<"w", "o", "u", "l", "d">>} :
          /\ HasWordAt(t, SkipWs(t, g + 4), verb)
          /\ RestAsks(t, SkipWs(t, g + 4) + Len(verb))
  \/ /\ t[g] = "."
     /\ SkipWs(t, g + 1) > g + 1
     /\ SkipDigits(t, SkipWs(t, g + 1)) > SkipWs(t, g + 1)
     /\ SkipDigits(t, SkipWs(t, g + 1)) <= Len(t)
     /\ t[SkipDigits(t, SkipWs(t, g + 1))] = "."
     /\ RestAsks(t, SkipDigits(t, SkipWs(t, g + 1)) + 1)

\* x || null
OrNil(text) == IF text = <<>> THEN Nil ELSE text

\* lines 58-82
stripQuestionFromCode(code) ==
  IF code = Nil \/ Trim(code) = <<>>
    THEN [codeOnly |-> Nil, strippedQuestion |-> Nil]
  ELSE
    LET t == Trim(code)
        G == {g \in 1..Len(t) : QuestionAt(t, g)}
        N == {n \in 1..Len(t) : t[n] = "\n"}
    IN  IF G # {}
          THEN [codeOnly |-> OrNil(Trim(SubSeq(t, 1, Least(G) - 1))),
                strippedQuestion |-> SubSeq(t, Least(G), Len(t))]
        ELSE IF N # {} /\ t[Len(t)] = "?"
          THEN LET n == CHOOSE i \in N : \A j \in N : j <= i
               IN  [codeOnly |-> OrNil(Trim(SubSeq(t, 1, n))),
                    strippedQuestion |-> Trim(SubSeq(t, n + 1, Len(t)))]
        ELSE [codeOnly |-> t, strippedQuestion |-> Nil]

\* lines 85-92
isPlaceholderText(text) ==
  \/ text = Nil
  \/ Len(Trim(text)) < 3
  \/ \A i \in 1..Len(Trim(text)) : Trim(text)[i] \in DecDigits
  \/ Trim(text) = Placeholder

\* a ?? b
Coalesce(a, b) == IF a # Nil THEN a ELSE b

\* lines 236-260: question_text and passage_text of the row of item q
ItemTexts(q) ==
  LET isCodeType == q.type = "code"
      stem == IF isCodeType
                THEN Trim(Coalesce(q.question, Coalesce(q.content, <<>>)))
                ELSE Trim(Coalesce(q.content, <<>>))
      questionText == IF stem = <<>> THEN NoQuestionText ELSE stem
      rawCode == IF Coalesce(q.code, q.content) = Nil THEN <<>>
                 ELSE Trim(Coalesce(q.code, q.content))
      stripped == stripQuestionFromCode(OrNil(rawCode))
      image == IF Coalesce(q.image_description, q.content) = Nil THEN Nil
               ELSE OrNil(Trim(Coalesce(q.image_description, q.content)))
      passageText == IF isCodeType THEN stripped.codeOnly ELSE image
      asked == IF /\ isCodeType
                  /\ stripped.strippedQuestion # Nil
                  /\ stripped.strippedQuestion # <<>>
                  /\ questionText = NoQuestionText
                 THEN stripped.strippedQuestion
                 ELSE questionText
      kept == IF isPlaceholderText(asked) THEN NoQuestionText ELSE asked
      hasAnyOption == \E k \in 1..Min(5, Len(q.options)) :
                        Trim(q.options[k]) # <<>>
  IN  [question_text |->
         IF kept = NoQuestionText /\ hasAnyOption THEN DefaultStem ELSE kept,
       passage_text |->
         IF passageText # Nil /\ isPlaceholderText(passageText) THEN Nil
         ELSE passageText]

\* an item is taken from the model's array
LoadItem(q) ==
  /\ calc.kind = "none"
  /\ calc' = [calc EXCEPT !.kind = "item", !.input = q]
  /\ UNCHANGED <<apiKey, store, ans, comp, ext, started, log, page, own, sta>>

\* lines 233-281: the item's row
NormalizeItem ==
  /\ calc.kind = "item"
  /\ calc' = [calc EXCEPT !.kind = "row", !.output = ItemTexts(calc.input)]
  /\ UNCHANGED <<apiKey, store, ans, comp, ext, started, log, page, own, sta>>

\* reference code, the separator before the question sentence, and the
\* question sentences of the scenarios
ReferenceCodes ==
  {<<"{", "x", "}">>, <<"f", "(", ")", ";">>, <<"a", " ", "=", " ", "1", ";">>}

SentenceSeparators == {<<"\n">>, <<" ">>}

QuestionSentences ==
  {<<"W", "h", "i", "c", "h", " ", "x", "?">>,
   <<"w", "h", "i", "c", "h", " ", "o", "f", " ", "x", "?">>,
   <<"W", "h", "a", "t", " ", "i", "s", " ", "x", "?">>}

\* code-type items with the code and the question in one string, in field
\* code or in field content, and no field question
CombinedItems ==
  {[type |-> "code",
    code |-> IF field = "code" THEN code \o sep \o sentence ELSE Nil,
    content |-> IF field = "content" THEN code \o sep \o sentence ELSE Nil,
    question |-> Nil, image_description |-> Nil, options |-> options,
    parts |-> [code |-> code, sentence |-> sentence]] :
     code \in ReferenceCodes, sep \in SentenceSeparators,
     sentence \in QuestionSentences, field \in {"code", "content"},
     options \in {<<>>, <<<<"a">>, <<"b">>>>}}

InitItems == InitExam({TRUE}, {<<NULL>>})

NextItems == (\E q \in CombinedItems : LoadItem(q)) \/ NormalizeItem

SpecItems == InitItems /\ [][NextItems]_vars

\* C26: the row of a code-type item whose code and trailing question
\* sentence came in one string, in field code or in field content and with
\* no field question, has the code without the sentence as its reference
\* material and exactly the sentence as its stem.
CombinedCodeSplit ==
  calc.kind = "row"
    => /\ calc.output.passage_text = calc.input.parts.code
       /\ calc.output.question_text = calc.input.parts.sentence

\* C27: the AttemptAnswer rows of a completed Attempt are written no more,
\* and the counts stored on a completed Attempt are those of a recount over
\* its AttemptAnswer rows.
CompletedAttemptFrozen ==
  /\ [](\A a \in attempts :
          a.completed_at # NullNum
            => [correctCount |-> a.correct_count,
                incorrectCount |-> a.incorrect_count,
                unansweredCount |-> a.unanswered_count]
                 = CountAnswers(AnswersOf(a.id)))
  /\ [][\A a \in attempts :
          a.completed_at # NullNum => AnswersOf(a.id)' = AnswersOf(a.id)]_vars

\* C28: a completion that succeeds after answer submissions, also for
\* questions of another Upload, reports counts of correct, incorrect and
\* unanswered that add up to the number of Questions of the Attempt's
\* Upload, and a percentage from 0 to 100.
CountsAddUp ==
  \A p \in CompProcs :
    (comp[p].pc = "done" /\ comp[p].status = 200)
      => /\ comp[p].body.correctCount + comp[p].body.incorrectCount
              + comp[p].body.unansweredCount
              = Cardinality(QuestionsOf(ExamUpload))
         /\ comp[p].body.percentage \in 0..100

(***************************************************************************)
(* The options of a question, in the solve prompt                          *)
(* (src/lib/ai-solve-prompts.ts) and on the exam page.  A question's       *)
(* options are its five slots option_a ... option_e, in that order.        *)
(***************************************************************************)
OPTION_KEYS == <<"A", "B", "C", "D", "E">>

\* o != null && o.trim() !== ""
NonBlank(o) == o # Nil /\ Trim(o) # <<>>

\* lines 23-27 of ai-solve-prompts.ts: the blank slots are filtered out,
\* then the i-th option left is labelled with the i-th key
buildOptions(slots) ==
  LET kept == SelectSeq(slots, NonBlank)
  IN  [i \in 1..Len(kept) |-> [key |-> OPTION_KEYS[i], text |-> Trim(kept[i])]]

\* lines 496-502 of page.tsx: each slot carries its key, then the blank
\* ones are filtered out
PageOptions(slots) ==
  SelectSeq([i \in 1..5 |-> [key |-> OPTION_KEYS[i], text |-> slots[i]]],
            LAMBDA o : NonBlank(o.text))

\* a slot is null, blank, or holds a text of its own
SlotTexts(i) == {Nil, <<" ">>, <<"o", OPTION_KEYS[i]>>}

QuestionSlots ==
  {<<a, b, c, d, e>> :
     a \in SlotTexts(1), b \in SlotTexts(2), c \in SlotTexts(3),
     d \in SlotTexts(4), e \in SlotTexts(5)}

\* a question without a known answer goes into a batch
LoadOptions(slots) ==
  /\ calc.kind = "none"
  /\ calc' = [calc EXCEPT !.kind = "slots", !.input = slots]
  /\ UNCHANGED <<apiKey, store, ans, comp, ext, started, log, page, own, sta>>

\* the Options block of the question in the prompt
BuildPrompt ==
  /\ calc.kind = "slots"
  /\ calc' = [calc EXCEPT !.kind = "prompt",
                          !.output = buildOptions(calc.input)]
  /\ UNCHANGED <<apiKey, store, ans, comp, ext, started, log, page, own, sta>>

InitPrompt == InitExam({TRUE}, {<<NULL>>})

NextPrompt == (\E slots \in QuestionSlots : LoadOptions(slots)) \/ BuildPrompt

SpecPrompt == InitPrompt /\ [][NextPrompt]_vars

\* the slot a key names
SlotOf(key) == CHOOSE i \in 1..5 : OPTION_KEYS[i] = key

\* C29: in the solve prompt every non-blank option carries the letter of
\* the slot it is stored in, whichever slots are blank, so that the letter
\* names the option the exam page shows under it.
PromptLabelsSlots ==
  calc.kind = "prompt"
    => /\ \A k \in 1..Len(calc.output) :
            calc.output[k].text = Trim(calc.input[SlotOf(calc.output[k].key)])
       /\ \A k \in 1..Len(PageOptions(calc.input)) :
            \E j \in 1..Len(calc.output) :
              /\ calc.output[j].key = PageOptions(calc.input)[k].key
              /\ calc.output[j].text = Trim(PageOptions(calc.input)[k].text)

(***************************************************************************)
(* The archived PDF and the Upload row, after an extraction request.       *)
(***************************************************************************)
\* src/app/api/upload/[id]/route.ts, lines 62-63: storagePath.endsWith(".pdf")
\* (the column is set by every insert, so it is never null here)
PdfAvailable(u) == u.storage_path.ext = ".pdf"

\* C30: after an extraction request that created an Upload has terminated,
\* the object store holds an archived PDF for the Upload's identifier
\* exactly when an Upload row with that identifier exists and the signed-URL
\* route treats its stored location as an available PDF.
ArchiveMatchesUpload ==
  (ext.pc = "done" /\ ext.uploadId # Nil)
    => (StorageKey(ext.uploadId) \in storage
          <=> \E u \in pdf_uploads : u.id = ext.uploadId /\ PdfAvailable(u))
====
